---- MODULE Spec2Model ----
(***************************************************************************)
(* Model of the relationship-extraction pipeline of rust-arch-visualizer:  *)
(* the aggregate CrateAnalysis (models/types.rs) with its merge, and the   *)
(* RelationshipAnalyzer (analyzer/relationship_analyzer.rs) with its name  *)
(* resolvers and extraction passes, and the MermaidGenerator               *)
(* (generator/mermaid.rs) with its five views, the combined document and   *)
(* the identifier sanitization; and of rust-packet-capture: the packet     *)
(* filter, the merge of command line and configuration file, and the       *)
(* capture loop with its Ctrl+C handler.                                   *)
(*                                                                         *)
(* Rust Strings are TLA+ strings, i.e. sequences of characters, handled    *)
(* with Len, SubSeq and \o.  A HashMap is a function whose DOMAIN is its   *)
(* key set.  Wherever the code iterates a HashMap or HashSet, the model    *)
(* takes the iteration order as a sequence enumerating the keys, chosen    *)
(* nondeterministically by the caller, because the order of std's hashed   *)
(* collections is unspecified.  Option<T> is a sequence of length 0 or 1.  *)
(***************************************************************************)
EXTENDS Integers, Sequences, FiniteSets, TLC

(***************************************************************************)
(* std string primitives used by the analyzer                              *)
(***************************************************************************)

\* str::starts_with
StartsWith(s, p) ==
    /\ Len(s) >= Len(p)
    /\ SubSeq(s, 1, Len(p)) = p

\* str::ends_with
EndsWith(s, p) ==
    /\ Len(s) >= Len(p)
    /\ SubSeq(s, Len(s) - Len(p) + 1, Len(s)) = p

\* the rest of s from (1-based) position i on
Rest(s, i) == SubSeq(s, i, Len(s))

\* str::split(pat) for a non-empty pattern: the pieces between the
\* non-overlapping matches of pat found left to right (never empty: a string
\* without a match is its own single piece).
RECURSIVE SplitAcc(_, _, _)
SplitAcc(s, pat, cur) ==
    IF Len(s) = 0 THEN <<cur>>
    ELSE IF StartsWith(s, pat)
         THEN <<cur>> \o SplitAcc(Rest(s, Len(pat) + 1), pat, "")
         ELSE SplitAcc(Rest(s, 2), pat, cur \o SubSeq(s, 1, 1))

Split(s, pat) == SplitAcc(s, pat, "")

\* type_name.split("::").last().unwrap_or(type_name)
LastSegment(s) ==
    LET parts == Split(s, "::") IN parts[Len(parts)]

\* str::replace(pat, to) for a non-empty pattern: every non-overlapping match,
\* found left to right, is replaced; the replacement is not rescanned.
RECURSIVE Replace(_, _, _)
Replace(s, pat, to) ==
    IF Len(s) < Len(pat) THEN s
    ELSE IF StartsWith(s, pat)
         THEN to \o Replace(Rest(s, Len(pat) + 1), pat, to)
         ELSE SubSeq(s, 1, 1) \o Replace(Rest(s, 2), pat, to)

\* str::replace([chars], to): every character of the set is replaced
RECURSIVE ReplaceChars(_, _, _)
ReplaceChars(s, chars, to) ==
    IF Len(s) = 0 THEN s
    ELSE (IF SubSeq(s, 1, 1) \in chars THEN to ELSE SubSeq(s, 1, 1))
         \o ReplaceChars(Rest(s, 2), chars, to)

\* str::split_whitespace: the maximal runs of non-blank characters, in order
RECURSIVE SplitWhitespaceAcc(_, _)
SplitWhitespaceAcc(s, cur) ==
    IF Len(s) = 0 THEN (IF cur = "" THEN <<>> ELSE <<cur>>)
    ELSE IF SubSeq(s, 1, 1) = " "
         THEN (IF cur = "" THEN <<>> ELSE <<cur>>)
              \o SplitWhitespaceAcc(Rest(s, 2), "")
         ELSE SplitWhitespaceAcc(Rest(s, 2), cur \o SubSeq(s, 1, 1))

SplitWhitespace(s) == SplitWhitespaceAcc(s, "")

\* slice::join
RECURSIVE Join(_, _)
Join(parts, sep) ==
    IF Len(parts) = 0 THEN ""
    ELSE IF Len(parts) = 1 THEN parts[1]
    ELSE parts[1] \o sep \o Join(Tail(parts), sep)

\* the elements of a sequence
Range(q) == {q[i] : i \in 1..Len(q)}

\* every iteration order of a hashed collection with the given elements
Orders(S) ==
    {q \in [1..Cardinality(S) -> S] : \A i, j \in 1..Cardinality(S) : q[i] = q[j] => i = j}

\* Vec concatenation of a list of lists (repeated Vec::extend / push)
RECURSIVE Flatten(_)
Flatten(qs) ==
    IF Len(qs) = 0 THEN <<>> ELSE Head(qs) \o Flatten(Tail(qs))

\* Option
None == <<>>
Some(x) == <<x>>

(***************************************************************************)
(* Name resolver (relationship_analyzer.rs).  A known set is given as the  *)
(* sequence in which the HashSet / HashMap yields its elements.            *)
(***************************************************************************)

\* index of the first element of the iteration order q satisfying a match,
\* given the set of matching indices (the `for known in ...` loops return at
\* the first match)
FirstOf(hits) == CHOOSE i \in hits : \A j \in hits : i <= j

PrimitiveTypes ==
    {"bool", "char", "str", "u8", "u16", "u32", "u64", "u128", "usize",
     "i8", "i16", "i32", "i64", "i128", "isize", "f32", "f64", "String",
     "Vec", "Option", "Result", "Box", "Rc", "Arc", "RefCell", "Cell",
     "Mutex", "RwLock", "HashMap", "HashSet", "BTreeMap", "BTreeSet",
     "VecDeque", "LinkedList", "BinaryHeap", "Cow", "Pin", "PhantomData",
     "Self"}

is_primitive_type(name) == name \in PrimitiveTypes

resolve_type_name_suffix_only(type_name, known_types) ==
    LET simple_name == LastSegment(type_name)
        hits == {i \in 1..Len(known_types) :
                    \/ EndsWith(known_types[i], "::" \o simple_name)
                    \/ known_types[i] = simple_name}
    IN  IF hits # {} THEN known_types[FirstOf(hits)] ELSE type_name

resolve_type_name_loose_suffix(type_name, known_types) ==
    IF type_name \in Range(known_types) THEN type_name
    ELSE LET simple_name == LastSegment(type_name)
             hits == {i \in 1..Len(known_types) : EndsWith(known_types[i], simple_name)}
         IN  IF hits # {} THEN known_types[FirstOf(hits)] ELSE type_name

resolve_type_name(type_name, known_types) ==
    IF type_name \in Range(known_types) THEN type_name
    ELSE LET simple_name == LastSegment(type_name)
             hits == {i \in 1..Len(known_types) :
                        \/ EndsWith(known_types[i], "::" \o simple_name)
                        \/ known_types[i] = simple_name}
         IN  IF hits # {} THEN known_types[FirstOf(hits)] ELSE type_name

find_trait_name_or_empty(trait_name, trait_keys) ==
    IF trait_name \in Range(trait_keys) THEN trait_name
    ELSE LET simple_name == LastSegment(trait_name)
             hits == {i \in 1..Len(trait_keys) :
                        EndsWith(trait_keys[i], "::" \o simple_name)}
         IN  IF hits # {} THEN trait_keys[FirstOf(hits)] ELSE ""

\* trait_keys is analysis.traits.keys() in iteration order
find_trait_name(trait_name, trait_keys) ==
    IF trait_name \in Range(trait_keys) THEN trait_name
    ELSE LET simple_name == LastSegment(trait_name)
             hits == {i \in 1..Len(trait_keys) :
                        EndsWith(trait_keys[i], "::" \o simple_name)}
         IN  IF hits # {} THEN trait_keys[FirstOf(hits)] ELSE trait_name

resolve_function_name_or_raw(call_name, known_functions, current_module) ==
    IF call_name \in Range(known_functions) THEN call_name
    ELSE LET full_name == current_module \o "::" \o call_name IN
         IF full_name \in Range(known_functions) THEN full_name
         ELSE LET hits == {i \in 1..Len(known_functions) :
                             EndsWith(known_functions[i], "::" \o call_name)}
              IN  IF hits # {} THEN known_functions[FirstOf(hits)] ELSE call_name

\* resolve_function_name with the suffix scan tried before the module prefix
resolve_function_name_suffix_first(call_name, known_functions, current_module) ==
    IF call_name \in Range(known_functions) THEN call_name
    ELSE LET hits == {i \in 1..Len(known_functions) :
                        EndsWith(known_functions[i], "::" \o call_name)}
             full_name == current_module \o "::" \o call_name
         IN  IF hits # {} THEN known_functions[FirstOf(hits)]
             ELSE IF full_name \in Range(known_functions) THEN full_name
             ELSE ""

resolve_function_name(call_name, known_functions, current_module) ==
    IF call_name \in Range(known_functions) THEN call_name
    ELSE LET full_name == current_module \o "::" \o call_name IN
         IF full_name \in Range(known_functions) THEN full_name
         ELSE LET hits == {i \in 1..Len(known_functions) :
                             EndsWith(known_functions[i], "::" \o call_name)}
              IN  IF hits # {} THEN known_functions[FirstOf(hits)] ELSE ""

\* the tokens the loop of extract_type_references runs over
TypeTokens(type_str) ==
    LET cleaned ==
            Replace(
                Replace(
                    ReplaceChars(type_str,
                                 {"<", ">", "(", ")", "[", "]", ",", "&", "*"}, " "),
                    "mut", " "),
                "dyn", " ")
    IN  SplitWhitespace(cleaned)

TokenReferences_keep_unresolved(type_name, known_types) ==
    IF is_primitive_type(type_name) THEN <<>>
    ELSE <<resolve_type_name(type_name, known_types)>>

\* the references one token contributes (one iteration of the loop)
TokenReferences(type_name, known_types) ==
    IF is_primitive_type(type_name) THEN <<>>
    ELSE LET resolved == resolve_type_name(type_name, known_types)
             hits == {i \in 1..Len(known_types) :
                        EndsWith(known_types[i], "::" \o type_name)}
         IN  IF resolved # "" /\ resolved # type_name THEN <<resolved>>
             ELSE IF hits # {} THEN <<known_types[FirstOf(hits)]>>
             ELSE <<>>

extract_type_references(type_str, known_types) ==
    LET parts == TypeTokens(type_str) IN
    Flatten([i \in 1..Len(parts) |-> TokenReferences(parts[i], known_types)])

(***************************************************************************)
(* Aggregate model (models/types.rs)                                       *)
(***************************************************************************)

\* an empty HashMap
EmptyMap == <<>>

\* CrateAnalysis::new
new(name) ==
    [name |-> name, structs |-> EmptyMap, enums |-> EmptyMap, traits |-> EmptyMap,
     impls |-> <<>>, functions |-> EmptyMap, modules |-> EmptyMap,
     relationships |-> <<>>]

\* HashMap::extend(other): every entry of other is inserted, replacing the
\* value of a key that is already present
MapFirstWins(m, o) ==
    [k \in (DOMAIN m) \cup (DOMAIN o) |-> IF k \in DOMAIN m THEN m[k] ELSE o[k]]

MapExtend(m, o) ==
    [k \in (DOMAIN m) \cup (DOMAIN o) |-> IF k \in DOMAIN o THEN o[k] ELSE m[k]]

\* Vec::extend(other)
VecExtendDedup(v, o) ==
    v \o SelectSeq(o, LAMBDA x : x \notin Range(v))

VecExtend(v, o) == v \o o

merge_skipping_functions(self, other) ==
    [name |-> self.name,
     structs |-> MapExtend(self.structs, other.structs),
     enums |-> MapExtend(self.enums, other.enums),
     traits |-> MapExtend(self.traits, other.traits),
     impls |-> VecExtend(self.impls, other.impls),
     functions |-> self.functions,
     modules |-> MapExtend(self.modules, other.modules),
     relationships |-> VecExtend(self.relationships, other.relationships)]

\* CrateAnalysis::merge
merge(self, other) ==
    [name |-> self.name,
     structs |-> MapExtend(self.structs, other.structs),
     enums |-> MapExtend(self.enums, other.enums),
     traits |-> MapExtend(self.traits, other.traits),
     impls |-> VecExtend(self.impls, other.impls),
     functions |-> MapExtend(self.functions, other.functions),
     modules |-> MapExtend(self.modules, other.modules),
     relationships |-> VecExtend(self.relationships, other.relationships)]

\* CrateAnalysis::all_type_names
all_type_names(self) == (DOMAIN self.structs) \cup (DOMAIN self.enums)

(***************************************************************************)
(* Relationship analyzer passes.  Each pass takes, besides the aggregate,  *)
(* the iteration orders of the hashed collections it walks.                *)
(***************************************************************************)

Relationship(from, to, relation_type, label) ==
    [from |-> from, to |-> to, relation_type |-> relation_type, label |-> label]

\* Option<String>::unwrap_or_default
unwrap_or_default(opt) == IF opt = None THEN "" ELSE opt[1]

analyze_impl_relationships(analysis, type_names, trait_keys) ==
    Flatten([i \in 1..Len(analysis.impls) |->
        LET impl_block == analysis.impls[i]
            self_type == resolve_type_name(impl_block.self_type, type_names)
        IN  IF impl_block.trait_name # None
            THEN <<Relationship(self_type,
                                find_trait_name(impl_block.trait_name[1], trait_keys),
                                "Implements", None)>>
            ELSE <<>>])

\* the edges of one field: one per extracted reference
FieldEdges(full_name, field, label, type_names) ==
    LET referenced_types == extract_type_references(field.ty, type_names) IN
    [r \in 1..Len(referenced_types) |->
        Relationship(full_name, referenced_types[r], "Contains", label)]

StructEdges(full_name, struct_def, type_names) ==
    Flatten([f \in 1..Len(struct_def.fields) |->
        FieldEdges(full_name, struct_def.fields[f], struct_def.fields[f].name,
                   type_names)])

EnumEdges_field_label(full_name, enum_def, type_names) ==
    Flatten([v \in 1..Len(enum_def.variants) |->
        LET variant == enum_def.variants[v] IN
        Flatten([f \in 1..Len(variant.fields) |->
            FieldEdges(full_name, variant.fields[f], variant.fields[f].name,
                       type_names)])])

EnumEdges(full_name, enum_def, type_names) ==
    Flatten([v \in 1..Len(enum_def.variants) |->
        LET variant == enum_def.variants[v] IN
        Flatten([f \in 1..Len(variant.fields) |->
            FieldEdges(full_name, variant.fields[f],
                       Some(variant.name \o "::" \o unwrap_or_default(variant.fields[f].name)),
                       type_names)])])

analyze_field_relationships(analysis, type_names, struct_keys, enum_keys) ==
    Flatten([s \in 1..Len(struct_keys) |->
                StructEdges(struct_keys[s], analysis.structs[struct_keys[s]], type_names)])
    \o
    Flatten([e \in 1..Len(enum_keys) |->
                EnumEdges(enum_keys[e], analysis.enums[enum_keys[e]], type_names)])

analyze_call_relationships(analysis, function_names, function_keys) ==
    Flatten([f \in 1..Len(function_keys) |->
        LET full_name == function_keys[f]
            func_def == analysis.functions[full_name]
        IN  Flatten([c \in 1..Len(func_def.calls) |->
                LET called_func == resolve_function_name(func_def.calls[c], function_names,
                                                         func_def.module_path)
                IN  IF called_func # ""
                    THEN <<Relationship(full_name, called_func, "Calls", None)>>
                    ELSE <<>>])])

UseEdges_keep_self(module_path, use_def) ==
    LET parts == Split(use_def.path, "::") IN
    IF Len(parts) >= 2
    THEN LET dep_module == Join(SubSeq(parts, 1, Len(parts) - 1), "::") IN
         IF dep_module # ""
         THEN <<Relationship(module_path, dep_module, "DependsOn", None)>>
         ELSE <<>>
    ELSE <<>>

\* the DependsOn edge of one use statement, if any
UseEdges(module_path, use_def) ==
    LET parts == Split(use_def.path, "::") IN
    IF Len(parts) >= 2
    THEN LET dep_module == Join(SubSeq(parts, 1, Len(parts) - 1), "::") IN
         IF dep_module # "" /\ dep_module # module_path
         THEN <<Relationship(module_path, dep_module, "DependsOn", None)>>
         ELSE <<>>
    ELSE <<>>

analyze_module_dependencies(analysis, module_keys) ==
    Flatten([m \in 1..Len(module_keys) |->
        LET module_path == module_keys[m]
            module_def == analysis.modules[module_path]
        IN  Flatten([u \in 1..Len(module_def.uses) |->
                        UseEdges(module_path, module_def.uses[u])])
            \o
            [sm \in 1..Len(module_def.submodules) |->
                Relationship(module_path, module_path \o "::" \o module_def.submodules[sm],
                             "Contains", None)]])

analyze_trait_inheritance(analysis, trait_keys) ==
    Flatten([t \in 1..Len(trait_keys) |->
        LET full_name == trait_keys[t]
            trait_def == analysis.traits[full_name]
        IN  [st \in 1..Len(trait_def.super_traits) |->
                Relationship(full_name,
                             find_trait_name(trait_def.super_traits[st], trait_keys),
                             "Extends", None)]])

analyze_extending(analysis, relationships) ==
    [analysis EXCEPT !.relationships = @ \o relationships]

\* RelationshipAnalyzer::analyze, given its local `relationships` as the five
\* passes have filled it: the final assignment
analyze(analysis, relationships) ==
    [analysis EXCEPT !.relationships = relationships]

\* every edge list each pass can return, over the iteration orders of the
\* collections it walks (all_type_names and function_names are fresh HashSets
\* in each pass; the trait map is walked by the impl pass and by the trait pass)
ImplOutcomes(a, trait_keys) ==
    {analyze_impl_relationships(a, tn, trait_keys) : tn \in Orders(all_type_names(a))}

FieldOutcomes(a) ==
    {analyze_field_relationships(a, tn, sk, ek) :
        tn \in Orders(all_type_names(a)),
        sk \in Orders(DOMAIN a.structs),
        ek \in Orders(DOMAIN a.enums)}

CallOutcomes(a) ==
    {analyze_call_relationships(a, fn, fk) :
        fn \in Orders(DOMAIN a.functions), fk \in Orders(DOMAIN a.functions)}

ModuleOutcomes(a) ==
    {analyze_module_dependencies(a, mk) : mk \in Orders(DOMAIN a.modules)}

\* every value the local `relationships` of analyze can have after the five
\* extend calls
PassOutcomes(a) ==
    LET F == FieldOutcomes(a)
        C == CallOutcomes(a)
        M == ModuleOutcomes(a)
    IN  UNION {
            {i \o f \o c \o m \o analyze_trait_inheritance(a, tk) :
                i \in ImplOutcomes(a, tk), f \in F, c \in C, m \in M} :
            tk \in Orders(DOMAIN a.traits)}

(***************************************************************************)
(* Diagram generator (generator/mermaid.rs).  The text a generator returns *)
(* is held as the sequence of its lines: every push_str of the code ends   *)
(* its text with a line feed.  An order argument is the iteration order of *)
(* the hashed collection the code walks at that place.                     *)
(***************************************************************************)

\* MermaidGenerator::new
indent == "    "

\* str::trim_matches(c)
RECURSIVE trim_matches(_, _)
trim_matches(s, c) ==
    IF Len(s) = 0 THEN s
    ELSE IF SubSeq(s, 1, 1) = c THEN trim_matches(Rest(s, 2), c)
    ELSE IF SubSeq(s, Len(s), Len(s)) = c THEN trim_matches(SubSeq(s, 1, Len(s) - 1), c)
    ELSE s

\* str::rfind(pat): the (1-based) start of the last match, 0 if there is none
rfind(s, pat) ==
    LET hits == {i \in 1..(Len(s) - Len(pat) + 1) : SubSeq(s, i, i + Len(pat) - 1) = pat}
    IN  IF hits = {} THEN 0 ELSE CHOOSE i \in hits : \A j \in hits : j <= i

\* str::contains(pat)
contains(s, pat) == rfind(s, pat) # 0

SanitizedChars == {"<", ">", "(", ")", "[", "]", ",", " ", "&", "*", "'"}

sanitize_id(name) ==
    trim_matches(
        Replace(
            ReplaceChars(Replace(Replace(name, "::", "_"), "-", "_"), SanitizedChars, "_"),
            "__", "_"),
        "_")

sanitize_type(ty) ==
    Replace(Replace(Replace(Replace(ty, "<", "~"), ">", "~"), ",", " "), "\"", "'")

get_parent_module(full_name) ==
    IF rfind(full_name, "::") # 0
    THEN SubSeq(full_name, 1, rfind(full_name, "::") - 1)
    ELSE ""

visibility_marker(vis) ==
    CASE vis = "Public" -> "+"
      [] vis \in {"Crate", "Super"} -> "~"
      [] vis = "Private" -> "-"

format_method(method) ==
    LET async_prefix == IF method.is_async THEN "async " ELSE ""
        receiver == CASE method.receiver = Some("SelfValue") -> "self"
                      [] method.receiver = Some("SelfRef") -> "&self"
                      [] method.receiver = Some("SelfMutRef") -> "&mut self"
                      [] method.receiver = None -> ""
        params == [i \in 1..Len(method.params) |-> sanitize_type(method.params[i])]
        params_str == IF receiver = "" THEN Join(params, ", ")
                      ELSE IF Len(params) = 0 THEN receiver
                      ELSE receiver \o ", " \o Join(params, ", ")
        return_type == IF method.return_type = None THEN ""
                       ELSE " -> " \o sanitize_type(method.return_type[1])
    IN  async_prefix \o method.name \o "(" \o params_str \o ")" \o return_type

\* the first key, in iteration order, that spells the type name or ends with it
find_type_full_name(type_name, struct_keys, enum_keys) ==
    LET hit(keys) == {i \in 1..Len(keys) :
                        EndsWith(keys[i], "::" \o type_name) \/ keys[i] = type_name}
    IN  IF hit(struct_keys) # {} THEN struct_keys[FirstOf(hit(struct_keys))]
        ELSE IF hit(enum_keys) # {} THEN enum_keys[FirstOf(hit(enum_keys))]
        ELSE ""

generate_struct_class(full_name, struct_def) ==
    <<indent \o "class " \o sanitize_id(full_name) \o " {",
      indent \o indent \o "<<struct>>">>
    \o [f \in 1..Len(struct_def.fields) |->
            LET field == struct_def.fields[f] IN
            indent \o indent \o visibility_marker(field.visibility) \o " "
                \o (IF field.name = None THEN "field" ELSE field.name[1])
                \o ": " \o sanitize_type(field.ty)]
    \o <<indent \o "}">>

\* one variant line of an enum class
VariantLine(variant) ==
    IF Len(variant.fields) = 0
    THEN indent \o indent \o variant.name
    ELSE LET fields == [f \in 1..Len(variant.fields) |->
                LET name == unwrap_or_default(variant.fields[f].name)
                    ty == sanitize_type(variant.fields[f].ty)
                IN  IF name = "" THEN ty ELSE name \o ": " \o ty]
         IN  indent \o indent \o variant.name \o "(" \o Join(fields, ", ") \o ")"

generate_enum_class(full_name, enum_def) ==
    <<indent \o "class " \o sanitize_id(full_name) \o " {",
      indent \o indent \o "<<enum>>">>
    \o [v \in 1..Len(enum_def.variants) |-> VariantLine(enum_def.variants[v])]
    \o <<indent \o "}">>

generate_trait_class(full_name, trait_def) ==
    <<indent \o "class " \o sanitize_id(full_name) \o " {",
      indent \o indent \o "<<trait>>">>
    \o [m \in 1..Len(trait_def.methods) |->
            indent \o indent \o format_method(trait_def.methods[m]) \o "*"]
    \o <<indent \o "}">>

generate_impl_methods(impl_block, struct_keys, enum_keys) ==
    LET full_name == find_type_full_name(impl_block.self_type, struct_keys, enum_keys) IN
    IF full_name = "" THEN <<>>
    ELSE [m \in 1..Len(impl_block.methods) |->
            indent \o sanitize_id(full_name) \o ":"
                \o visibility_marker(impl_block.methods[m].visibility)
                \o format_method(impl_block.methods[m])]

\* the line and the dedup key of one relationship in the class diagram; no
\* line (<<>>) for the other kinds and for a Contains edge onto itself
ClassEdge(rel) ==
    LET from_id == sanitize_id(rel.from)
        to_id == sanitize_id(rel.to)
    IN  CASE rel.relation_type = "Implements" ->
                <<[key |-> from_id \o "-impl-" \o to_id,
                   line |-> indent \o from_id \o " ..|> " \o to_id]>>
          [] rel.relation_type = "Contains" ->
                IF from_id # to_id
                THEN <<[key |-> from_id \o "-contains-" \o to_id,
                        line |-> IF rel.label # None
                                 THEN indent \o from_id \o " --> " \o to_id \o " : " \o rel.label[1]
                                 ELSE indent \o from_id \o " --> " \o to_id]>>
                ELSE <<>>
          [] rel.relation_type = "Extends" ->
                <<[key |-> from_id \o "-extends-" \o to_id,
                   line |-> indent \o from_id \o " --|> " \o to_id]>>
          [] OTHER -> <<>>

\* the loop of generate_class_relationships without its `seen` set
RECURSIVE ClassEdgeLinesAll(_)
ClassEdgeLinesAll(rels) ==
    IF Len(rels) = 0 THEN <<>>
    ELSE LET edge == ClassEdge(Head(rels)) IN
         (IF edge # <<>> THEN <<edge[1].line>> ELSE <<>>) \o ClassEdgeLinesAll(Tail(rels))

\* the loop of generate_class_relationships from the given `seen` set on
RECURSIVE ClassEdgeLines(_, _)
ClassEdgeLines(rels, seen) ==
    IF Len(rels) = 0 THEN <<>>
    ELSE LET edge == ClassEdge(Head(rels)) IN
         IF edge # <<>> /\ edge[1].key \notin seen
         THEN <<edge[1].line>> \o ClassEdgeLines(Tail(rels), seen \cup {edge[1].key})
         ELSE ClassEdgeLines(Tail(rels), seen)

generate_class_relationships_no_seen(analysis) ==
    ClassEdgeLinesAll(analysis.relationships)

generate_class_relationships(analysis) ==
    ClassEdgeLines(analysis.relationships, {})

generate_class_diagram(analysis, struct_keys, enum_keys, trait_keys) ==
    <<"classDiagram">>
    \o Flatten([i \in 1..Len(struct_keys) |->
            generate_struct_class(struct_keys[i], analysis.structs[struct_keys[i]])])
    \o Flatten([i \in 1..Len(enum_keys) |->
            generate_enum_class(enum_keys[i], analysis.enums[enum_keys[i]])])
    \o Flatten([i \in 1..Len(trait_keys) |->
            generate_trait_class(trait_keys[i], analysis.traits[trait_keys[i]])])
    \o Flatten([i \in 1..Len(analysis.impls) |->
            IF analysis.impls[i].trait_name = None
            THEN generate_impl_methods(analysis.impls[i], struct_keys, enum_keys)
            ELSE <<>>])
    \o generate_class_relationships(analysis)

\* the `modules` set of generate_module_diagram: the declared modules and
\* the prefix before the last `::` of every struct, enum and trait key
ModuleSet(analysis) ==
    (DOMAIN analysis.modules)
    \cup {SubSeq(k, 1, rfind(k, "::") - 1) :
            k \in {n \in (DOMAIN analysis.structs) \cup (DOMAIN analysis.enums)
                            \cup (DOMAIN analysis.traits) : rfind(n, "::") # 0}}

\* the dependency loop with the membership test on the source module only
RECURSIVE ModuleDepLines_from_only(_, _, _)
ModuleDepLines_from_only(rels, modules, seen_deps) ==
    IF Len(rels) = 0 THEN <<>>
    ELSE LET rel == Head(rels)
             from_id == sanitize_id(rel.from)
             to_id == sanitize_id(rel.to)
         IN  IF /\ rel.relation_type = "DependsOn"
                /\ rel.from \in modules
                /\ <<from_id, to_id>> \notin seen_deps
             THEN <<indent \o from_id \o " --> " \o to_id>>
                  \o ModuleDepLines_from_only(Tail(rels), modules,
                                              seen_deps \cup {<<from_id, to_id>>})
             ELSE ModuleDepLines_from_only(Tail(rels), modules, seen_deps)

\* the dependency loop of generate_module_diagram from the given `seen_deps` on
RECURSIVE ModuleDepLines(_, _, _)
ModuleDepLines(rels, modules, seen_deps) ==
    IF Len(rels) = 0 THEN <<>>
    ELSE LET rel == Head(rels)
             from_id == sanitize_id(rel.from)
             to_id == sanitize_id(rel.to)
         IN  IF /\ rel.relation_type = "DependsOn"
                /\ rel.from \in modules
                /\ rel.to \in modules
                /\ <<from_id, to_id>> \notin seen_deps
             THEN <<indent \o from_id \o " --> " \o to_id>>
                  \o ModuleDepLines(Tail(rels), modules, seen_deps \cup {<<from_id, to_id>>})
             ELSE ModuleDepLines(Tail(rels), modules, seen_deps)

\* the dashed edges of one declared module to its submodules
SubmoduleLines(module_path, module_def, modules) ==
    Flatten([sm \in 1..Len(module_def.submodules) |->
        LET sub_path == module_path \o "::" \o module_def.submodules[sm] IN
        IF sub_path \in modules
        THEN <<indent \o sanitize_id(module_path) \o " -.-> " \o sanitize_id(sub_path)>>
        ELSE <<>>])

generate_module_diagram(analysis, module_order, module_keys) ==
    <<"flowchart TD">>
    \o [i \in 1..Len(module_order) |->
            indent \o sanitize_id(module_order[i]) \o "[\""
                \o LastSegment(module_order[i]) \o "\"]"]
    \o ModuleDepLines(analysis.relationships, Range(module_order), {})
    \o Flatten([i \in 1..Len(module_keys) |->
            SubmoduleLines(module_keys[i], analysis.modules[module_keys[i]],
                           Range(module_order))])

\* the call loop of generate_call_graph from the given `seen_calls` on
RECURSIVE CallLines(_, _)
CallLines(rels, seen_calls) ==
    IF Len(rels) = 0 THEN <<>>
    ELSE LET rel == Head(rels)
             from_id == sanitize_id(rel.from)
             to_id == sanitize_id(rel.to)
         IN  IF rel.relation_type = "Calls" /\ <<from_id, to_id>> \notin seen_calls
             THEN <<indent \o from_id \o " --> " \o to_id>>
                  \o CallLines(Tail(rels), seen_calls \cup {<<from_id, to_id>>})
             ELSE CallLines(Tail(rels), seen_calls)

generate_call_graph(analysis, function_keys) ==
    <<"flowchart LR">>
    \o [i \in 1..Len(function_keys) |->
            indent \o sanitize_id(function_keys[i]) \o "[\""
                \o analysis.functions[function_keys[i]].name \o "()\"]"]
    \o CallLines(analysis.relationships, {})

\* the Component line of one entity
Component(full_name, name, kind, description) ==
    "Component(" \o sanitize_id(full_name) \o ", \"" \o name \o "\", \"" \o kind
        \o "\", \"" \o description \o "\")"

\* the Vec that module_components holds for one module: its structs, traits
\* and enums in the order the three maps were walked
ComponentsOf(analysis, module, struct_keys, trait_keys, enum_keys) ==
    Flatten([i \in 1..Len(struct_keys) |->
        IF get_parent_module(struct_keys[i]) = module
        THEN <<Component(struct_keys[i], analysis.structs[struct_keys[i]].name, "Struct",
                         "Struct with "
                            \o ToString(Len(analysis.structs[struct_keys[i]].fields))
                            \o " fields")>>
        ELSE <<>>])
    \o Flatten([i \in 1..Len(trait_keys) |->
        IF get_parent_module(trait_keys[i]) = module
        THEN <<Component(trait_keys[i], analysis.traits[trait_keys[i]].name, "Trait",
                         "Trait with "
                            \o ToString(Len(analysis.traits[trait_keys[i]].methods))
                            \o " methods")>>
        ELSE <<>>])
    \o Flatten([i \in 1..Len(enum_keys) |->
        IF get_parent_module(enum_keys[i]) = module
        THEN <<Component(enum_keys[i], analysis.enums[enum_keys[i]].name, "Enum",
                         "Enum with "
                            \o ToString(Len(analysis.enums[enum_keys[i]].variants))
                            \o " variants")>>
        ELSE <<>>])

\* the keys of module_components, and of the `modules` set of
\* generate_c4_container: the parent module of every struct, enum and trait
ParentModules(analysis) ==
    {get_parent_module(k) :
        k \in (DOMAIN analysis.structs) \cup (DOMAIN analysis.enums)
                \cup (DOMAIN analysis.traits)}

\* the relationship loop of generate_c4_component from the given `seen` on
RECURSIVE ComponentRelLines(_, _)
ComponentRelLines(rels, seen) ==
    IF Len(rels) = 0 THEN <<>>
    ELSE LET rel == Head(rels)
             from_id == sanitize_id(rel.from)
             to_id == sanitize_id(rel.to)
             key == from_id \o "-" \o to_id
         IN  IF key \in seen \/ from_id = to_id
             THEN ComponentRelLines(Tail(rels), seen)
             ELSE (IF rel.relation_type \in {"Implements", "Contains", "Extends"}
                   THEN <<"Rel(" \o from_id \o ", " \o to_id \o ", \""
                            \o (CASE rel.relation_type = "Implements" -> "implements"
                                  [] rel.relation_type = "Contains" -> "contains"
                                  [] rel.relation_type = "Extends" -> "extends")
                            \o "\")">>
                   ELSE <<>>)
                  \o ComponentRelLines(Tail(rels), seen \cup {key})

generate_c4_component(analysis, struct_keys, trait_keys, enum_keys, component_order) ==
    <<"C4Component", "title Component Diagram for " \o analysis.name, "">>
    \o Flatten([m \in 1..Len(component_order) |->
            <<"Container_Boundary(" \o sanitize_id(component_order[m]) \o ", \""
                \o LastSegment(component_order[m]) \o "\") {">>
            \o [c \in 1..Len(ComponentsOf(analysis, component_order[m], struct_keys,
                                          trait_keys, enum_keys)) |->
                    "  " \o ComponentsOf(analysis, component_order[m], struct_keys,
                                        trait_keys, enum_keys)[c]]
            \o <<"}", "">>])
    \o ComponentRelLines(analysis.relationships, {})

\* the technology label with the repository keywords tested before service
Technology_repository_first(short_name) ==
    IF contains(short_name, "repository") \/ contains(short_name, "repo")
         THEN "Repository Layer"
    ELSE IF contains(short_name, "service") THEN "Service Layer"
    ELSE IF contains(short_name, "domain") \/ contains(short_name, "entity")
                \/ contains(short_name, "model")
         THEN "Domain Layer"
    ELSE IF contains(short_name, "api") \/ contains(short_name, "handler")
         THEN "API Layer"
    ELSE "Rust Module"

\* the technology label of a container, by its short name
Technology(short_name) ==
    IF contains(short_name, "service") THEN "Service Layer"
    ELSE IF contains(short_name, "repository") \/ contains(short_name, "repo")
         THEN "Repository Layer"
    ELSE IF contains(short_name, "domain") \/ contains(short_name, "entity")
                \/ contains(short_name, "model")
         THEN "Domain Layer"
    ELSE IF contains(short_name, "api") \/ contains(short_name, "handler")
         THEN "API Layer"
    ELSE "Rust Module"

\* module_stats: the number of keys of a map whose parent module is the module
ModuleStat(keys, module) ==
    ToString(Cardinality({k \in keys : get_parent_module(k) = module}))

\* the Container line of one module
ContainerLine(analysis, module) ==
    "Container(" \o sanitize_id(module) \o ", \"" \o LastSegment(module) \o "\", \""
        \o Technology(LastSegment(module)) \o "\", \""
        \o ModuleStat(DOMAIN analysis.structs, module) \o " structs, "
        \o ModuleStat(DOMAIN analysis.enums, module) \o " enums, "
        \o ModuleStat(DOMAIN analysis.traits, module) \o " traits\")"

\* the Rel line of the container view
UsesLine(from_id, to_id) == "Rel(" \o from_id \o ", " \o to_id \o ", \"uses\")"

\* the DependsOn loop of generate_c4_container; acc holds the lines pushed
\* and the `seen` set so far
RECURSIVE ContainerDependsLoop(_, _, _)
ContainerDependsLoop(rels, modules, acc) ==
    IF Len(rels) = 0 THEN acc
    ELSE LET rel == Head(rels)
             from_id == sanitize_id(rel.from)
             to_id == sanitize_id(rel.to)
         IN  IF \/ rel.relation_type # "DependsOn"
                \/ rel.from \notin modules \/ rel.to \notin modules
                \/ <<from_id, to_id>> \in acc.seen \/ from_id = to_id
             THEN ContainerDependsLoop(Tail(rels), modules, acc)
             ELSE ContainerDependsLoop(Tail(rels), modules,
                    [lines |-> Append(acc.lines, UsesLine(from_id, to_id)),
                     seen |-> acc.seen \cup {<<from_id, to_id>>}])

\* the inference loop without the test of the `seen` set
RECURSIVE ContainerInferLoop_no_seen(_, _, _)
ContainerInferLoop_no_seen(rels, modules, acc) ==
    IF Len(rels) = 0 THEN acc
    ELSE LET rel == Head(rels)
             from_module == get_parent_module(rel.from)
             to_module == get_parent_module(rel.to)
             from_id == sanitize_id(from_module)
             to_id == sanitize_id(to_module)
         IN  IF \/ rel.relation_type \notin {"Contains", "Implements"}
                \/ from_module = "" \/ to_module = "" \/ from_module = to_module
                \/ from_module \notin modules \/ to_module \notin modules
             THEN ContainerInferLoop_no_seen(Tail(rels), modules, acc)
             ELSE ContainerInferLoop_no_seen(Tail(rels), modules,
                    [lines |-> Append(acc.lines, UsesLine(from_id, to_id)),
                     seen |-> acc.seen \cup {<<from_id, to_id>>}])

\* the loop of generate_c4_container that infers dependencies from Contains
\* and Implements edges, continuing with the same `seen` set
RECURSIVE ContainerInferLoop(_, _, _)
ContainerInferLoop(rels, modules, acc) ==
    IF Len(rels) = 0 THEN acc
    ELSE LET rel == Head(rels)
             from_module == get_parent_module(rel.from)
             to_module == get_parent_module(rel.to)
             from_id == sanitize_id(from_module)
             to_id == sanitize_id(to_module)
         IN  IF \/ rel.relation_type \notin {"Contains", "Implements"}
                \/ from_module = "" \/ to_module = "" \/ from_module = to_module
                \/ from_module \notin modules \/ to_module \notin modules
                \/ <<from_id, to_id>> \in acc.seen
             THEN ContainerInferLoop(Tail(rels), modules, acc)
             ELSE ContainerInferLoop(Tail(rels), modules,
                    [lines |-> Append(acc.lines, UsesLine(from_id, to_id)),
                     seen |-> acc.seen \cup {<<from_id, to_id>>}])

generate_c4_container(analysis, container_order) ==
    <<"C4Container", "title Container Diagram for " \o analysis.name, "">>
    \o Flatten([m \in 1..Len(container_order) |->
            IF container_order[m] = "" THEN <<>>
            ELSE <<ContainerLine(analysis, container_order[m])>>])
    \o <<"">>
    \o ContainerInferLoop(analysis.relationships, Range(container_order),
            ContainerDependsLoop(analysis.relationships, Range(container_order),
                                 [lines |-> <<>>, seen |-> {}])).lines

\* the fence lines of an embedded diagram block; the three grave accents of
\* the code are written as apostrophes, a TLA+ string cannot hold the former
FenceOpen == "'''mermaid"
FenceClose == "'''"

\* orders: the iteration orders of the maps and sets the views walk
generate_full_diagram_all_sections(analysis, orders) ==
    <<"# Rust Architecture Diagram", "">>
    \o <<"## C4 Container Diagram", "", FenceOpen>>
    \o generate_c4_container(analysis, orders.container_order)
    \o <<FenceClose, "">>
    \o <<"## C4 Component Diagram", "", FenceOpen>>
    \o generate_c4_component(analysis, orders.struct_keys, orders.trait_keys,
                             orders.enum_keys, orders.component_order)
    \o <<FenceClose, "">>
    \o <<"## Class Diagram", "", FenceOpen>>
    \o generate_class_diagram(analysis, orders.struct_keys, orders.enum_keys, orders.trait_keys)
    \o <<FenceClose, "">>
    \o <<"## Module Dependencies", "", FenceOpen>>
    \o generate_module_diagram(analysis, orders.module_order, orders.module_keys)
    \o <<FenceClose, "">>
    \o <<"## Function Call Graph", "", FenceOpen>>
    \o generate_call_graph(analysis, orders.function_keys)
    \o <<FenceClose, "">>

generate_full_diagram(analysis, orders) ==
    <<"# Rust Architecture Diagram", "">>
    \o <<"## C4 Container Diagram", "", FenceOpen>>
    \o generate_c4_container(analysis, orders.container_order)
    \o <<FenceClose, "">>
    \o <<"## C4 Component Diagram", "", FenceOpen>>
    \o generate_c4_component(analysis, orders.struct_keys, orders.trait_keys,
                             orders.enum_keys, orders.component_order)
    \o <<FenceClose, "">>
    \o <<"## Class Diagram", "", FenceOpen>>
    \o generate_class_diagram(analysis, orders.struct_keys, orders.enum_keys, orders.trait_keys)
    \o <<FenceClose, "">>
    \o (IF DOMAIN analysis.modules # {}
        THEN <<"## Module Dependencies", "", FenceOpen>>
             \o generate_module_diagram(analysis, orders.module_order, orders.module_keys)
             \o <<FenceClose, "">>
        ELSE <<>>)
    \o (IF DOMAIN analysis.functions # {}
        THEN <<"## Function Call Graph", "", FenceOpen>>
             \o generate_call_graph(analysis, orders.function_keys)
             \o <<FenceClose, "">>
        ELSE <<>>)

(***************************************************************************)
(* Translation units, as the parser (parser/rust_parser.rs) hands them     *)
(* over: one aggregate per source file, keyed by fully-qualified names,    *)
(* type strings without blanks (type_to_string).                           *)
(***************************************************************************)

Field(name, ty, visibility) == [name |-> name, ty |-> ty, visibility |-> visibility]

Method(name, visibility) ==
    [name |-> name, visibility |-> visibility, is_async |-> FALSE,
     receiver |-> Some("SelfRef"), params |-> <<>>, return_type |-> None]

\* the fields of a tuple struct or tuple variant: each named by its position
UnnamedFields(tys, visibility) ==
    [i \in 1..Len(tys) |-> Field(Some(ToString(i - 1)), tys[i], visibility)]

Function(name, calls, module_path) ==
    [name |-> name, visibility |-> "Public", is_async |-> FALSE, params |-> <<>>,
     return_type |-> None, calls |-> calls, module_path |-> module_path]

Use(path) == [path |-> path, alias |-> None, visibility |-> "Private"]

\* src/domain.rs
UnitDomain ==
    [new("crate::domain") EXCEPT
     !.structs = [k \in {"crate::domain::User"} |->
        [name |-> "User", visibility |-> "Public",
         fields |-> <<Field(Some("id"), "Uuid", "Public"),
                      Field(Some("perm"), "Vec<Permutation>", "Private")>>,
         generics |-> <<>>, is_tuple |-> FALSE, module_path |-> "crate::domain"]],
     !.enums = [k \in {"crate::domain::Role"} |->
        [name |-> "Role", visibility |-> "Public",
         variants |-> <<[name |-> "Admin",
                         fields |-> UnnamedFields(<<"User">>, "Private"),
                         discriminant |-> None],
                        [name |-> "Guest", fields |-> <<>>, discriminant |-> None]>>,
         generics |-> <<>>, module_path |-> "crate::domain"]],
     !.traits = [k \in {"crate::domain::Entity"} |->
        [name |-> "Entity", visibility |-> "Public",
         methods |-> <<Method("id", "Private")>>, generics |-> <<>>,
         super_traits |-> <<>>, module_path |-> "crate::domain"]],
     !.impls = <<[self_type |-> "User", trait_name |-> Some("Entity"),
                  methods |-> <<Method("id", "Private")>>, generics |-> <<>>,
                  module_path |-> "crate::domain"],
                 [self_type |-> "User", trait_name |-> None,
                  methods |-> <<Method("new", "Public")>>, generics |-> <<>>,
                  module_path |-> "crate::domain"]>>,
     !.functions = [k \in {"crate::domain::create", "crate::domain::validate"} |->
        IF k = "crate::domain::create"
        THEN Function("create", <<"validate", "helper", "missing">>, "crate::domain")
        ELSE Function("validate", <<>>, "crate::domain")]]

\* src/math.rs
UnitMath ==
    [new("crate::math") EXCEPT
     !.structs = [k \in {"crate::math::Permutation"} |->
        [name |-> "Permutation", visibility |-> "Public",
         fields |-> <<Field(Some("owner"), "crate::domain::User", "Private"),
                      Field(Some("roles"), "HashMap<String,Role>", "Public")>>,
         generics |-> <<>>, is_tuple |-> FALSE, module_path |-> "crate::math"]],
     !.traits = [k \in {"crate::math::Group"} |->
        [name |-> "Group", visibility |-> "Public", methods |-> <<>>,
         generics |-> <<>>, super_traits |-> <<"Entity", "Send">>,
         module_path |-> "crate::math"]],
     !.impls = <<[self_type |-> "Permutation", trait_name |-> Some("Group"),
                  methods |-> <<>>, generics |-> <<>>, module_path |-> "crate::math"],
                 [self_type |-> "Vec<T>", trait_name |-> Some("fmt::Display"),
                  methods |-> <<Method("fmt", "Private")>>, generics |-> <<"T">>,
                  module_path |-> "crate::math"]>>,
     !.functions = [k \in {"crate::math::helper"} |->
        Function("helper", <<"crate::domain::validate", "util::helper">>, "crate::math")]]

\* src/lib.rs, with an inline `mod domain` that redefines items of
\* src/domain.rs under the same keys
UnitLib ==
    [new("crate") EXCEPT
     !.structs = [k \in {"crate::domain::User"} |->
        [name |-> "User", visibility |-> "Public",
         fields |-> UnnamedFields(<<"Rc<Role>">>, "Public"),
         generics |-> <<>>, is_tuple |-> TRUE, module_path |-> "crate::domain"]],
     !.impls = <<[self_type |-> "User", trait_name |-> Some("Entity"),
                  methods |-> <<Method("id", "Private")>>, generics |-> <<>>,
                  module_path |-> "crate::domain"]>>,
     !.functions = [k \in {"crate::domain::validate"} |->
        Function("validate", <<"helper">>, "crate::domain")],
     !.modules = [k \in {"crate::domain", "crate::domain::inner"} |->
        IF k = "crate::domain"
        THEN [name |-> "domain", visibility |-> "Public", path |-> "crate::domain",
              submodules |-> <<"inner">>,
              uses |-> <<Use("crate::math::Permutation"), Use("crate::domain::Role"),
                         Use("fmt"), Use("std::fmt::Display"),
                         Use("crate::domain::inner::Item")>>]
        ELSE [name |-> "inner", visibility |-> "Public", path |-> "crate::domain::inner",
              submodules |-> <<>>, uses |-> <<>>]]]

Units == {UnitDomain, UnitMath, UnitLib}

\* src/geometry.rs, with an inline `mod shapes`
UnitGeometry ==
    [new("crate::geometry") EXCEPT
     !.structs = [k \in {"crate::geometry::Point", "crate::geometry::Line",
                         "crate::geometry::shapes::Circle"} |->
        IF k = "crate::geometry::Point"
        THEN [name |-> "Point", visibility |-> "Public",
              fields |-> UnnamedFields(<<"f64", "f64">>, "Public"),
              generics |-> <<>>, is_tuple |-> TRUE, module_path |-> "crate::geometry"]
        ELSE IF k = "crate::geometry::shapes::Circle"
        THEN [name |-> "Circle", visibility |-> "Super",
              fields |-> <<Field(Some("center"), "Point", "Public"),
                           Field(Some("radius"), "f64", "Public")>>,
              generics |-> <<>>, is_tuple |-> FALSE,
              module_path |-> "crate::geometry::shapes"]
        ELSE [name |-> "Line", visibility |-> "Crate",
              fields |-> <<Field(Some("start"), "Point", "Public"),
                           Field(Some("end"), "Point", "Public"),
                           Field(Some("next"), "Option<Box<Line>>", "Private")>>,
              generics |-> <<>>, is_tuple |-> FALSE, module_path |-> "crate::geometry"]],
     !.impls = <<[self_type |-> "Line", trait_name |-> None,
                  methods |-> <<[Method("len", "Public") EXCEPT
                                    !.params = <<"&HashMap<String,f64>">>,
                                    !.return_type = Some("f64")]>>,
                  generics |-> <<>>, module_path |-> "crate::geometry"],
                 [self_type |-> "Vec<&'aT>", trait_name |-> Some("Shape"),
                  methods |-> <<>>, generics |-> <<"T">>,
                  module_path |-> "crate::geometry"]>>,
     !.modules = [k \in {"crate::geometry::shapes"} |->
        [name |-> "shapes", visibility |-> "Public", path |-> "crate::geometry::shapes",
         submodules |-> <<>>, uses |-> <<Use("crate::geometry::Point")>>]]]

\* a crate of layered modules: src/<module>.rs holds `pub struct Item;`
LayeredCrate(module_paths) ==
    [new("crate") EXCEPT
     !.structs = [k \in {module_path \o "::Item" : module_path \in module_paths} |->
        [name |-> "Item", visibility |-> "Public", fields |-> <<>>,
         generics |-> <<>>, is_tuple |-> FALSE,
         module_path |-> SubSeq(k, 1, Len(k) - Len("::Item"))]]]

\* the crates the generator is run on: what main.rs parses from a single file
\* or from the files of a crate, merged in the order they are walked
Crates ==
    {new("crate"),
     UnitDomain,
     UnitGeometry,
     merge(merge(new("crate"), UnitDomain), UnitMath),
     merge(merge(new("crate"), UnitMath), UnitLib),
     LayeredCrate({"crate::services", "crate::repo_service"}),
     LayeredCrate({"crate::repository", "crate::domain_repo"}),
     LayeredCrate({"crate::user_repo", "crate::util"}),
     LayeredCrate({"crate::entity", "crate::api_model"}),
     LayeredCrate({"crate::models", "crate::rapid"}),
     LayeredCrate({"crate::api", "crate::api_service"}),
     LayeredCrate({"crate::handlers"})}

\* the analyzed aggregates main.rs hands to the generator
GeneratorInputs ==
    UNION {{analyze(a, relationships) : relationships \in PassOutcomes(a)} : a \in Crates}

(***************************************************************************)
(* rust-packet-capture: the packet filter (filter/mod.rs), the command     *)
(* line (cli/mod.rs) and the configuration (config/mod.rs).  An IpAddr is  *)
(* named by its canonical text, a PathBuf by its text.                     *)
(***************************************************************************)

\* enum Protocol
Protocol == {"Tcp", "Udp", "Icmp", "All"}

\* PacketFilter::matches with a port test that looks at the source port only
matches_source_port_only(self, protocol, src_ip, dst_ip, src_port, dst_port) ==
    IF self.protocol # "All" /\ self.protocol # protocol THEN FALSE
    ELSE IF self.source # None /\ src_ip # self.source[1] THEN FALSE
    ELSE IF self.destination # None /\ dst_ip # self.destination[1] THEN FALSE
    ELSE IF self.port # None /\ ~(src_port = Some(self.port[1])) THEN FALSE
    ELSE TRUE

\* PacketFilter::matches: each criterion returns false early
matches(self, protocol, src_ip, dst_ip, src_port, dst_port) ==
    IF self.protocol # "All" /\ self.protocol # protocol THEN FALSE
    ELSE IF self.source # None /\ src_ip # self.source[1] THEN FALSE
    ELSE IF self.destination # None /\ dst_ip # self.destination[1] THEN FALSE
    ELSE IF self.port # None
            /\ ~(src_port = Some(self.port[1]) \/ dst_port = Some(self.port[1]))
         THEN FALSE
    ELSE TRUE

\* clap's default_value: the value passed, or the default of the option
default_value(passed, default) == IF passed = None THEN default ELSE passed[1]

\* Args::parse_args: argv holds what the user passed, None for an option left
\* out; the options with default_value come out as plain values
parse_args(argv) ==
    [interface       |-> argv.interface,
     protocol        |-> default_value(argv.protocol, "all"),
     port            |-> argv.port,
     source          |-> argv.source,
     destination     |-> argv.destination,
     output          |-> default_value(argv.output, "capture.pcap"),
     config          |-> argv.config,
     max_packets     |-> default_value(argv.max_packets, 0),
     list_interfaces |-> argv.list_interfaces,
     verbose         |-> argv.verbose]

default_protocol == "all"

default_output == "capture.pcap"

\* impl Default for Config
Config_default ==
    [interface   |-> None,
     protocol    |-> default_protocol,
     port        |-> None,
     source      |-> None,
     destination |-> None,
     output      |-> default_output,
     max_packets |-> 0,
     verbose     |-> FALSE]

\* a key of the TOML table, or the serde default of the field
serde_default(table, key, default) ==
    IF key \in DOMAIN table THEN table[key] ELSE default

\* an optional key of the TOML table
serde_option(table, key) ==
    IF key \in DOMAIN table THEN Some(table[key]) ELSE None

\* Config::from_file: file is None when the file cannot be read or is not a
\* TOML table of the Config fields (an Err), else the table of the keys it sets
from_file(file) ==
    IF file = None THEN None
    ELSE LET table == file[1]
         IN  Some(
             [interface   |-> serde_option(table, "interface"),
              protocol    |-> serde_default(table, "protocol", default_protocol),
              port        |-> serde_option(table, "port"),
              source      |-> serde_option(table, "source"),
              destination |-> serde_option(table, "destination"),
              output      |-> serde_default(table, "output", default_output),
              max_packets |-> serde_default(table, "max_packets", 0),
              verbose     |-> serde_default(table, "verbose", FALSE)])

\* Config::from_args; None stands for Err
from_args(args, file) ==
    LET loaded == IF args.config # None THEN from_file(file) ELSE Some(Config_default)
    IN  IF loaded = None THEN None
        ELSE LET config == loaded[1]
             IN  Some(
                 [interface   |-> IF args.interface # None
                                  THEN args.interface ELSE config.interface,
                  protocol    |-> IF args.protocol # "all"
                                  THEN args.protocol ELSE config.protocol,
                  port        |-> IF args.port # None
                                  THEN args.port ELSE config.port,
                  source      |-> IF args.source # None
                                  THEN args.source ELSE config.source,
                  destination |-> IF args.destination # None
                                  THEN args.destination ELSE config.destination,
                  output      |-> IF args.output # "capture.pcap"
                                  THEN args.output ELSE config.output,
                  max_packets |-> IF args.max_packets > 0
                                  THEN args.max_packets ELSE config.max_packets,
                  verbose     |-> IF args.verbose THEN TRUE ELSE config.verbose])

(***************************************************************************)
(* rust-packet-capture: the capture engine (capture/mod.rs) and the PCAP   *)
(* writer (output/mod.rs).  A received frame is a record of what the pnet  *)
(* views find in it: ethernet says whether EthernetPacket::new succeeds,   *)
(* ip whether the Ipv4Packet / Ipv6Packet view does, and transport whether *)
(* the TcpPacket / UdpPacket view does.                                    *)
(***************************************************************************)

Frame(ethertype, next_header, src, dst, ports) ==
    [ethernet |-> TRUE, ethertype |-> ethertype, ip |-> TRUE,
     next_header |-> next_header, source |-> src, destination |-> dst,
     transport |-> ports # None,
     ports |-> IF ports = None THEN <<0, 0>> ELSE ports[1]]

\* the protocol, the addresses and the ports process_ipv4 / process_ipv6 read,
\* or None where they return early
Headers(frame, icmp) ==
    IF ~frame.ip THEN None
    ELSE IF frame.next_header \in {"Tcp", "Udp"}
    THEN IF frame.transport
         THEN Some([protocol |-> frame.next_header,
                    src_ip |-> frame.source, dst_ip |-> frame.destination,
                    src_port |-> Some(frame.ports[1]),
                    dst_port |-> Some(frame.ports[2])])
         ELSE None
    ELSE IF frame.next_header = icmp
    THEN Some([protocol |-> "Icmp",
               src_ip |-> frame.source, dst_ip |-> frame.destination,
               src_port |-> None, dst_port |-> None])
    ELSE None

\* process_ipv4 / process_ipv6: the headers, then the filter
Captured(self, frame, icmp) ==
    LET h == Headers(frame, icmp)
    IN  IF h = None THEN None
        ELSE IF ~matches(self.filter, h[1].protocol, h[1].src_ip, h[1].dst_ip,
                         h[1].src_port, h[1].dst_port)
        THEN None
        ELSE Some(h[1])

process_ipv4(self, frame) == Captured(self, frame, "Icmp")

process_ipv6(self, frame) == Captured(self, frame, "Icmpv6")

\* CaptureEngine::process_packet
process_packet(self, ethernet_data) ==
    IF ~ethernet_data.ethernet THEN None
    ELSE IF ethernet_data.ethertype = "Ipv4" THEN process_ipv4(self, ethernet_data)
    ELSE IF ethernet_data.ethertype = "Ipv6" THEN process_ipv6(self, ethernet_data)
    ELSE None

\* PcapWriter::new: the global header is written and flushed
PcapWriter_new == [packet_count |-> 0, buffered |-> FALSE]

\* PcapWriter::write_packet, all write_all calls succeeding
write_packet(self) ==
    [packet_count |-> self.packet_count + 1, buffered |-> TRUE]

\* PcapWriter::flush succeeding
flush(self) == [self EXCEPT !.buffered = FALSE]

\* the progress line of run is printed every so many packets
ProgressInterval == 100

\* the limit test of run with > in place of >=
reached_limit_late(max_packets, packet_count) ==
    max_packets > 0 /\ packet_count > max_packets

\* the limit test of run
reached_limit(max_packets, packet_count) ==
    max_packets > 0 /\ packet_count >= max_packets

\* CaptureEngine::new; the interface plays no part in the loop
CaptureEngine_new(filter, max_packets, verbose) ==
    [filter |-> filter, writer |-> PcapWriter_new,
     max_packets |-> max_packets, verbose |-> verbose]

(***************************************************************************)
(* Bounds                                                                  *)
(***************************************************************************)

\* merge and analyze calls in one run of the pipeline
MaxOps == 4

\* size of the known set handed to a resolver
MaxKnown == 2

\* sanitize_id calls applied one on another to a raw name
MaxPasses == 3

\* largest packet limit the capture engine is started with
MaxLimit == 2

\* packets one run of the capture loop writes
MaxWritten == 100

(***************************************************************************)
(* State                                                                   *)
(***************************************************************************)

VARIABLES
    analysis,    \* the crate-level CrateAnalysis
    other,       \* the per-unit CrateAnalysis that merge takes
    pre,         \* analysis as it was before the last merge / analyze
    merged,      \* the impl lists of the aggregates merged so far, in order
    op,          \* the last operation
    derived,     \* the local `relationships` of the last analyze call
    nops,        \* merge and analyze calls so far
    known,       \* resolver input: the known set, in iteration order
    wrapper,     \* resolver input: the <<prefix, suffix>> put around inner
    inner,       \* resolver input: the name the candidate string mentions
    module,      \* resolver input: current_module of the last function lookup
    resolved,    \* resolver output: the name returned
    references,  \* resolver output: the Vec extract_type_references returned
    rop,         \* the last resolver function applied
    diagram,     \* generator: the view rendered last
    output,      \* generator: the lines of the text rendered last
    raw,         \* generator: the raw name handed to sanitize_id
    safe_id,     \* generator: the result of the last sanitize_id call
    prev_id,     \* generator: the result of the sanitize_id call before it
    passes,      \* generator: sanitize_id calls applied to raw, one on another
    filter,      \* filter: the PacketFilter matches is called on
    arguments,   \* filter: the arguments of the matches call
    matched,     \* filter: what matches returned
    argv,        \* config: the options the user passed on the command line
    file,        \* config: the TOML table of the configuration file
    args,        \* config: the Args clap parsed
    config,      \* config: what Config::from_args returned
    engine,      \* capture: the CaptureEngine (filter, writer, max_packets, verbose)
    running,     \* capture: the AtomicBool shared with the Ctrl+C handler
    packet_count,\* capture: the local counter of run
    packet,      \* capture: the packet of the last Ok of rx.next(), None after an Err
    after_stop,  \* capture: packets written since running was found cleared
    result,      \* capture: what run returned
    flushes,     \* capture: calls of PcapWriter::flush so far
    pc           \* packet-capture: the position of main / of run

pipelineVars == <<analysis, other, pre, merged, derived, op, nops>>
resolverVars == <<known, wrapper, inner, module, resolved, references, rop>>
generatorVars == <<diagram, output, raw, safe_id, prev_id, passes>>
filterVars == <<filter, arguments, matched>>
configVars == <<argv, file, args, config>>
engineVars == <<engine, running, packet_count, packet, after_stop, result, flushes>>
toolVars == <<filter, arguments, matched, argv, file, args, config,
              engine, running, packet_count, packet, after_stop, result, flushes, pc>>
vars == <<analysis, other, pre, merged, derived, op, nops,
          known, wrapper, inner, module, resolved, references, rop,
          diagram, output, raw, safe_id, prev_id, passes,
          filter, arguments, matched, argv, file, args, config,
          engine, running, packet_count, packet, after_stop, result, flushes, pc>>

\* the candidate string handed to the resolver
cand == wrapper[1] \o inner \o wrapper[2]

(***************************************************************************)
(* The pipeline: parse units, merge them, analyze                          *)
(***************************************************************************)

ResolverIdle ==
    /\ known = <<>>
    /\ wrapper = <<"", "">>
    /\ inner = ""
    /\ module = ""
    /\ resolved = ""
    /\ references = <<>>
    /\ rop = "none"

GeneratorIdle ==
    /\ diagram = "none"
    /\ output = <<>>
    /\ raw = ""
    /\ safe_id = ""
    /\ prev_id = ""
    /\ passes = 0

\* the command line without any option
NoArgv ==
    [interface |-> None, protocol |-> None, port |-> None, source |-> None,
     destination |-> None, output |-> None, config |-> None,
     max_packets |-> None, list_interfaces |-> FALSE, verbose |-> FALSE]

\* the filter that lets every packet pass
NoFilter ==
    [protocol |-> "All", port |-> None, source |-> None, destination |-> None]

FilterIdle ==
    /\ filter = NoFilter
    /\ arguments = [protocol |-> "All", src_ip |-> "", dst_ip |-> "",
               src_port |-> None, dst_port |-> None]
    /\ matched = None

ConfigIdle ==
    /\ argv = NoArgv
    /\ file = None
    /\ args = parse_args(NoArgv)
    /\ config = None

EngineIdle ==
    /\ engine = CaptureEngine_new(NoFilter, 0, FALSE)
    /\ running = TRUE
    /\ packet_count = 0
    /\ packet = None
    /\ after_stop = 0
    /\ result = "none"
    /\ flushes = 0

ToolIdle ==
    /\ FilterIdle
    /\ ConfigIdle
    /\ EngineIdle
    /\ pc = "idle"

Init ==
    /\ analysis = new("crate")
    /\ other \in Units
    /\ pre = new("crate")
    /\ merged = <<>>
    /\ derived = <<>>
    /\ op = "new"
    /\ nops = 0
    /\ ResolverIdle
    /\ GeneratorIdle
    /\ ToolIdle

\* the parser hands over the aggregate of another unit
ParseUnit ==
    /\ \E u \in Units : other' = u
    /\ other' # other
    /\ derived' = <<>>
    /\ op' = "parse"
    /\ UNCHANGED <<analysis, pre, merged, nops>>
    /\ UNCHANGED resolverVars
    /\ UNCHANGED generatorVars
    /\ UNCHANGED toolVars

\* analyze run on the per-unit aggregate (single-file pipeline)
AnalyzeOther ==
    /\ nops < MaxOps
    /\ derived' \in PassOutcomes(other)
    /\ other' = analyze(other, derived')
    /\ op' = "analyze_other"
    /\ nops' = nops + 1
    /\ UNCHANGED <<analysis, pre, merged>>
    /\ UNCHANGED resolverVars
    /\ UNCHANGED generatorVars
    /\ UNCHANGED toolVars

\* analysis.merge(other)
Merge ==
    /\ nops < MaxOps
    /\ analysis' = merge(analysis, other)
    /\ pre' = analysis
    /\ merged' = Append(merged, other.impls)
    /\ derived' = <<>>
    /\ op' = "merge"
    /\ nops' = nops + 1
    /\ UNCHANGED other
    /\ UNCHANGED resolverVars
    /\ UNCHANGED generatorVars
    /\ UNCHANGED toolVars

\* analyzer.analyze(&mut analysis)
Analyze ==
    /\ nops < MaxOps
    /\ derived' \in PassOutcomes(analysis)
    /\ analysis' = analyze(analysis, derived')
    /\ pre' = analysis
    /\ op' = "analyze"
    /\ nops' = nops + 1
    /\ UNCHANGED <<other, merged>>
    /\ UNCHANGED resolverVars
    /\ UNCHANGED generatorVars
    /\ UNCHANGED toolVars

Next == ParseUnit \/ AnalyzeOther \/ Merge \/ Analyze

Spec == Init /\ [][Next]_vars

(***************************************************************************)
(* The resolver functions, applied to drawn inputs                         *)
(***************************************************************************)

NamePool ==
    {"crate::domain::User", "crate::billing::User", "User",
     "crate::domain::SuperUser", "crate::math::Permutation",
     "crate::util::Vec", "crate::util::helper", "crate::other::helper"}

InnerPool ==
    {"User", "domain::User", "crate::domain::User", "Missing", "Permutation",
     "helper", "util::helper", "Vec"}

WrapperPool ==
    {<<"", "">>, <<"Vec<", ">">>, <<"Option<Box<", ">>">>,
     <<"HashMap<String,", ">">>, <<"&mut", "">>}

ModulePool == {"crate::util", "crate::domain"}

KnownOrders ==
    UNION {Orders(S) : S \in {T \in SUBSET NamePool : Cardinality(T) <= MaxKnown}}

PipelineIdle ==
    /\ analysis = new("crate")
    /\ other = new("crate")
    /\ pre = new("crate")
    /\ merged = <<>>
    /\ derived = <<>>
    /\ op = "new"
    /\ nops = 0

InitResolver ==
    /\ PipelineIdle
    /\ known \in KnownOrders
    /\ wrapper \in WrapperPool
    /\ inner \in InnerPool
    /\ module = ""
    /\ resolved = ""
    /\ references = <<>>
    /\ rop = "none"
    /\ GeneratorIdle
    /\ ToolIdle

ResolveType ==
    /\ rop = "none"
    /\ resolved' = resolve_type_name(cand, known)
    /\ rop' = "type"
    /\ UNCHANGED <<known, wrapper, inner, module, references>>
    /\ UNCHANGED pipelineVars
    /\ UNCHANGED generatorVars
    /\ UNCHANGED toolVars

FindTrait ==
    /\ rop = "none"
    /\ resolved' = find_trait_name(cand, known)
    /\ rop' = "trait"
    /\ UNCHANGED <<known, wrapper, inner, module, references>>
    /\ UNCHANGED pipelineVars
    /\ UNCHANGED generatorVars
    /\ UNCHANGED toolVars

ResolveFunction ==
    /\ rop = "none"
    /\ \E current_module \in ModulePool :
        /\ module' = current_module
        /\ resolved' = resolve_function_name(cand, known, current_module)
    /\ rop' = "function"
    /\ UNCHANGED <<known, wrapper, inner, references>>
    /\ UNCHANGED pipelineVars
    /\ UNCHANGED generatorVars
    /\ UNCHANGED toolVars

ExtractReferences ==
    /\ rop = "none"
    /\ references' = extract_type_references(cand, known)
    /\ rop' = "extract"
    /\ UNCHANGED <<known, wrapper, inner, module, resolved>>
    /\ UNCHANGED pipelineVars
    /\ UNCHANGED generatorVars
    /\ UNCHANGED toolVars

NextResolver == ResolveType \/ FindTrait \/ ResolveFunction \/ ExtractReferences

SpecResolver == InitResolver /\ [][NextResolver]_vars

(***************************************************************************)
(* The generator, applied to analyzed aggregates, and sanitize_id applied  *)
(* to raw names                                                            *)
(***************************************************************************)

\* raw names: keys of the entity maps, module paths, and self types and trait
\* names that matched no known name and stand in an edge as written
RawPool ==
    {"crate::domain::User", "crate::my-app::Config", "Vec<T>", "fmt::Display",
     "HashMap<K,V>", "Map<(A,B)>", "Option<&[u8]>", "Vec<&'aT>", "a, &b",
     "crate::ffi::__m128", "_private", "User"}

InitGenerator ==
    /\ analysis \in GeneratorInputs
    /\ other = new("crate")
    /\ pre = new("crate")
    /\ merged = <<>>
    /\ derived = <<>>
    /\ op = "new"
    /\ nops = 0
    /\ ResolverIdle
    /\ GeneratorIdle
    /\ ToolIdle

\* nothing has been rendered or sanitized yet
Fresh == diagram = "none" /\ passes = 0

GenerateClassDiagram ==
    /\ Fresh
    /\ \E struct_keys \in Orders(DOMAIN analysis.structs),
          enum_keys \in Orders(DOMAIN analysis.enums),
          trait_keys \in Orders(DOMAIN analysis.traits) :
        output' = generate_class_diagram(analysis, struct_keys, enum_keys, trait_keys)
    /\ diagram' = "class"
    /\ UNCHANGED <<raw, safe_id, prev_id, passes>>
    /\ UNCHANGED pipelineVars
    /\ UNCHANGED resolverVars
    /\ UNCHANGED toolVars

GenerateModuleDiagram ==
    /\ Fresh
    /\ \E module_order \in Orders(ModuleSet(analysis)),
          module_keys \in Orders(DOMAIN analysis.modules) :
        output' = generate_module_diagram(analysis, module_order, module_keys)
    /\ diagram' = "module"
    /\ UNCHANGED <<raw, safe_id, prev_id, passes>>
    /\ UNCHANGED pipelineVars
    /\ UNCHANGED resolverVars
    /\ UNCHANGED toolVars

GenerateCallGraph ==
    /\ Fresh
    /\ \E function_keys \in Orders(DOMAIN analysis.functions) :
        output' = generate_call_graph(analysis, function_keys)
    /\ diagram' = "call"
    /\ UNCHANGED <<raw, safe_id, prev_id, passes>>
    /\ UNCHANGED pipelineVars
    /\ UNCHANGED resolverVars
    /\ UNCHANGED toolVars

GenerateC4Component ==
    /\ Fresh
    /\ \E struct_keys \in Orders(DOMAIN analysis.structs),
          trait_keys \in Orders(DOMAIN analysis.traits),
          enum_keys \in Orders(DOMAIN analysis.enums),
          component_order \in Orders(ParentModules(analysis)) :
        output' = generate_c4_component(analysis, struct_keys, trait_keys, enum_keys,
                                        component_order)
    /\ diagram' = "c4component"
    /\ UNCHANGED <<raw, safe_id, prev_id, passes>>
    /\ UNCHANGED pipelineVars
    /\ UNCHANGED resolverVars
    /\ UNCHANGED toolVars

GenerateC4Container ==
    /\ Fresh
    /\ \E container_order \in Orders(ParentModules(analysis)) :
        output' = generate_c4_container(analysis, container_order)
    /\ diagram' = "c4container"
    /\ UNCHANGED <<raw, safe_id, prev_id, passes>>
    /\ UNCHANGED pipelineVars
    /\ UNCHANGED resolverVars
    /\ UNCHANGED toolVars

GenerateFullDiagram ==
    /\ Fresh
    /\ \E struct_keys \in Orders(DOMAIN analysis.structs),
          enum_keys \in Orders(DOMAIN analysis.enums),
          trait_keys \in Orders(DOMAIN analysis.traits),
          function_keys \in Orders(DOMAIN analysis.functions),
          module_keys \in Orders(DOMAIN analysis.modules),
          module_order \in Orders(ModuleSet(analysis)),
          component_order \in Orders(ParentModules(analysis)),
          container_order \in Orders(ParentModules(analysis)) :
        output' = generate_full_diagram(analysis,
                        [struct_keys |-> struct_keys, enum_keys |-> enum_keys,
                         trait_keys |-> trait_keys, function_keys |-> function_keys,
                         module_keys |-> module_keys, module_order |-> module_order,
                         component_order |-> component_order,
                         container_order |-> container_order])
    /\ diagram' = "full"
    /\ UNCHANGED <<raw, safe_id, prev_id, passes>>
    /\ UNCHANGED pipelineVars
    /\ UNCHANGED resolverVars
    /\ UNCHANGED toolVars

\* sanitize_id applied to a raw name, and again to its own result
SanitizeId ==
    /\ diagram = "none"
    /\ passes < MaxPasses
    /\ \/ /\ passes = 0
          /\ \E name \in RawPool :
                /\ raw' = name
                /\ safe_id' = sanitize_id(name)
          /\ prev_id' = prev_id
       \/ /\ passes > 0
          /\ raw' = raw
          /\ safe_id' = sanitize_id(safe_id)
          /\ prev_id' = safe_id
    /\ passes' = passes + 1
    /\ UNCHANGED <<diagram, output>>
    /\ UNCHANGED pipelineVars
    /\ UNCHANGED resolverVars
    /\ UNCHANGED toolVars

NextGenerator ==
    \/ GenerateClassDiagram
    \/ GenerateModuleDiagram
    \/ GenerateCallGraph
    \/ GenerateC4Component
    \/ GenerateC4Container
    \/ GenerateFullDiagram
    \/ SanitizeId

SpecGenerator == InitGenerator /\ [][NextGenerator]_vars

(***************************************************************************)
(* rust-packet-capture: PacketFilter::matches applied to drawn filters and *)
(* packet headers                                                          *)
(***************************************************************************)

IpPool == {"192.168.1.1", "10.0.0.1"}

OptionOf(S) == {None} \cup {Some(x) : x \in S}

Filters ==
    [protocol : Protocol, port : OptionOf({80, 443}),
     source : OptionOf(IpPool), destination : OptionOf(IpPool)]

Calls ==
    [protocol : Protocol, src_ip : IpPool, dst_ip : IpPool,
     src_port : OptionOf({80, 12345}), dst_port : OptionOf({80, 443})]

InitFilter ==
    /\ PipelineIdle
    /\ ResolverIdle
    /\ GeneratorIdle
    /\ filter \in Filters
    /\ arguments \in Calls
    /\ matched = None
    /\ ConfigIdle
    /\ EngineIdle
    /\ pc = "matches"

\* filter.matches(protocol, src_ip, dst_ip, src_port, dst_port)
FilterMatches ==
    /\ pc = "matches"
    /\ matched' = Some(matches(filter, arguments.protocol, arguments.src_ip,
                               arguments.dst_ip, arguments.src_port,
                               arguments.dst_port))
    /\ pc' = "matched"
    /\ UNCHANGED <<filter, arguments>>
    /\ UNCHANGED configVars
    /\ UNCHANGED engineVars
    /\ UNCHANGED pipelineVars
    /\ UNCHANGED resolverVars
    /\ UNCHANGED generatorVars

SpecFilter == InitFilter /\ [][FilterMatches]_vars

(***************************************************************************)
(* rust-packet-capture: the command line parsed and merged with the        *)
(* configuration file, as main.rs does before the capture starts           *)
(***************************************************************************)

\* what the user may pass; --list-interfaces ends main before from_args
ArgvPool ==
    [interface : OptionOf({"eth0"}),
     protocol : OptionOf({"all", "tcp"}),
     port : OptionOf({80}),
     source : OptionOf({"192.168.1.1"}),
     destination : OptionOf({"10.0.0.1"}),
     output : OptionOf({"capture.pcap", "out.pcap"}),
     config : OptionOf({"capture.toml"}),
     max_packets : OptionOf({0, 10}),
     list_interfaces : {FALSE},
     verbose : BOOLEAN]

\* the configuration file: missing or malformed, empty, setting every field,
\* setting some
FilePool ==
    {None,
     Some(EmptyMap),
     Some([interface |-> "wlan0", protocol |-> "udp", port |-> 443,
           source |-> "10.0.0.1", destination |-> "192.168.1.1",
           output |-> "file.pcap", max_packets |-> 5, verbose |-> TRUE]),
     Some([protocol |-> "icmp", max_packets |-> 5])}

InitConfig ==
    /\ PipelineIdle
    /\ ResolverIdle
    /\ GeneratorIdle
    /\ FilterIdle
    /\ argv \in ArgvPool
    /\ file \in FilePool
    /\ args = parse_args(NoArgv)
    /\ config = None
    /\ EngineIdle
    /\ pc = "parse_args"

\* let args = Args::parse_args()
ParseArgs ==
    /\ pc = "parse_args"
    /\ args' = parse_args(argv)
    /\ pc' = "from_args"
    /\ UNCHANGED <<argv, file, config>>
    /\ UNCHANGED filterVars
    /\ UNCHANGED engineVars
    /\ UNCHANGED pipelineVars
    /\ UNCHANGED resolverVars
    /\ UNCHANGED generatorVars

\* let config = Config::from_args(&args)?
FromArgs ==
    /\ pc = "from_args"
    /\ config' = from_args(args, file)
    /\ pc' = IF config' = None THEN "failed" ELSE "configured"
    /\ UNCHANGED <<argv, file, args>>
    /\ UNCHANGED filterVars
    /\ UNCHANGED engineVars
    /\ UNCHANGED pipelineVars
    /\ UNCHANGED resolverVars
    /\ UNCHANGED generatorVars

NextConfig == ParseArgs \/ FromArgs

SpecConfig == InitConfig /\ [][NextConfig]_vars

(***************************************************************************)
(* rust-packet-capture: CaptureEngine::run, with the Ctrl+C handler of     *)
(* main.rs running beside it.  pc is the position of run: "check" at the   *)
(* load of the while condition, "receive" inside rx.next(), "flush" at the *)
(* final flush, "returned" once run has returned, "dropped" once main has  *)
(* dropped the engine.                                                     *)
(***************************************************************************)

CaptureFilters ==
    {[protocol |-> "All", port |-> None, source |-> None, destination |-> None],
     [protocol |-> "Tcp", port |-> Some(80), source |-> None, destination |-> None],
     [protocol |-> "Udp", port |-> None, source |-> None,
      destination |-> Some("192.168.1.1")]}

FramePool ==
    {Frame("Ipv4", "Tcp", "192.168.1.1", "10.0.0.1", Some(<<12345, 80>>)),
     Frame("Ipv4", "Udp", "10.0.0.1", "192.168.1.1", Some(<<53, 12345>>)),
     Frame("Ipv4", "Icmp", "192.168.1.1", "10.0.0.1", None),
     Frame("Ipv6", "Tcp", "fe80::1", "fe80::2", Some(<<443, 12345>>)),
     Frame("Ipv6", "Icmpv6", "fe80::1", "fe80::2", None),
     Frame("Ipv6", "Icmp", "fe80::1", "fe80::2", None),
     Frame("Ipv4", "Igmp", "192.168.1.1", "224.0.0.1", None),
     Frame("Arp", "", "", "", None),
     Frame("Ipv4", "Tcp", "192.168.1.1", "10.0.0.1", None),
     [Frame("Ipv4", "", "", "", None) EXCEPT !.ip = FALSE],
     [Frame("", "", "", "", None) EXCEPT !.ethernet = FALSE, !.ip = FALSE]}

InitCapture ==
    /\ PipelineIdle
    /\ ResolverIdle
    /\ GeneratorIdle
    /\ FilterIdle
    /\ ConfigIdle
    /\ \E capture_filter \in CaptureFilters, max_packets \in 0..MaxLimit,
          verbose \in BOOLEAN :
            engine = CaptureEngine_new(capture_filter, max_packets, verbose)
    /\ running = TRUE
    /\ packet_count = 0
    /\ packet = None
    /\ after_stop = 0
    /\ result = "none"
    /\ flushes = 0
    /\ pc = "check"

\* while self.running.load(Ordering::SeqCst)
LoopCheck ==
    /\ pc = "check"
    /\ pc' = IF running THEN "receive" ELSE "flush"
    /\ UNCHANGED <<engine, running, packet_count, packet, after_stop, result, flushes>>
    /\ UNCHANGED filterVars
    /\ UNCHANGED configVars
    /\ UNCHANGED pipelineVars
    /\ UNCHANGED resolverVars
    /\ UNCHANGED generatorVars

\* the body of the loop after a packet has passed process_packet and
\* write_packet has succeeded: the count, the progress line whose flush of
\* stdout may fail, and the limit
Written(stdout_fails) ==
    /\ engine' = [engine EXCEPT !.writer = write_packet(engine.writer)]
    /\ packet_count' = packet_count + 1
    /\ after_stop' = IF running THEN after_stop ELSE after_stop + 1
    /\ IF ~engine.verbose /\ packet_count' % ProgressInterval = 0 /\ stdout_fails
       THEN /\ result' = "Err(stdout)"
            /\ pc' = "returned"
       ELSE /\ result' = result
            /\ pc' = IF reached_limit(engine.max_packets, packet_count')
                     THEN "flush" ELSE "check"

\* match rx.next(): the receive returns with an error, with a packet that
\* process_packet drops, or with one that is written
Receive ==
    /\ pc = "receive"
    /\ \/ /\ packet' = None
          /\ pc' = "check"
          /\ UNCHANGED <<engine, packet_count, after_stop, result>>
       \/ \E data \in FramePool :
            /\ packet' = Some(data)
            /\ IF process_packet(engine, data) = None
               THEN /\ pc' = "check"
                    /\ UNCHANGED <<engine, packet_count, after_stop, result>>
               ELSE /\ packet_count < MaxWritten
                    /\ \/ \E stdout_fails \in BOOLEAN : Written(stdout_fails)
                       \/ /\ engine' \in {engine,
                                          [engine EXCEPT !.writer.buffered = TRUE]}
                          /\ result' = "Err(write_packet)"
                          /\ pc' = "returned"
                          /\ UNCHANGED <<packet_count, after_stop>>
    /\ UNCHANGED <<running, flushes>>
    /\ UNCHANGED filterVars
    /\ UNCHANGED configVars
    /\ UNCHANGED pipelineVars
    /\ UNCHANGED resolverVars
    /\ UNCHANGED generatorVars

\* self.writer.flush()? after the loop, then Ok(())
FinalFlush ==
    /\ pc = "flush"
    /\ \/ /\ engine' = [engine EXCEPT !.writer = flush(engine.writer)]
          /\ result' = "Ok"
       \/ /\ engine' = engine
          /\ result' = "Err(flush)"
    /\ flushes' = flushes + 1
    /\ pc' = "returned"
    /\ UNCHANGED <<running, packet_count, packet, after_stop>>
    /\ UNCHANGED filterVars
    /\ UNCHANGED configVars
    /\ UNCHANGED pipelineVars
    /\ UNCHANGED resolverVars
    /\ UNCHANGED generatorVars

\* main's run returns and drops the engine: Drop for PcapWriter flushes and
\* ignores the outcome
DropEngine ==
    /\ pc = "returned"
    /\ engine' \in {engine, [engine EXCEPT !.writer = flush(engine.writer)]}
    /\ flushes' = flushes + 1
    /\ pc' = "dropped"
    /\ UNCHANGED <<running, packet_count, packet, after_stop, result>>
    /\ UNCHANGED filterVars
    /\ UNCHANGED configVars
    /\ UNCHANGED pipelineVars
    /\ UNCHANGED resolverVars
    /\ UNCHANGED generatorVars

\* a handler that flips the flag instead of clearing it
CtrlC_toggle ==
    /\ pc # "dropped"
    /\ running' = ~running
    /\ UNCHANGED <<engine, pc, packet_count, packet, after_stop, result, flushes>>
    /\ UNCHANGED filterVars
    /\ UNCHANGED configVars
    /\ UNCHANGED pipelineVars
    /\ UNCHANGED resolverVars
    /\ UNCHANGED generatorVars

\* the handler set by ctrlc::set_handler: r.store(false, Ordering::SeqCst)
CtrlC ==
    /\ pc # "dropped"
    /\ running' = FALSE
    /\ UNCHANGED <<engine, pc, packet_count, packet, after_stop, result, flushes>>
    /\ UNCHANGED filterVars
    /\ UNCHANGED configVars
    /\ UNCHANGED pipelineVars
    /\ UNCHANGED resolverVars
    /\ UNCHANGED generatorVars

NextCapture == LoopCheck \/ Receive \/ FinalFlush \/ DropEngine \/ CtrlC

SpecCapture == InitCapture /\ [][NextCapture]_vars

\* the capture thread keeps running, and every receive call returns
SpecShutdown ==
    /\ InitCapture
    /\ [][NextCapture]_vars
    /\ WF_vars(LoopCheck)
    /\ WF_vars(Receive)
    /\ WF_vars(FinalFlush)
    /\ WF_vars(DropEngine)

(***************************************************************************)
(* Properties of merge                                                     *)
(***************************************************************************)

\* the five entity maps of a CrateAnalysis
MapFields == {"structs", "enums", "traits", "functions", "modules"}

\* number of occurrences of e in the list q
Count(e, q) == Cardinality({i \in 1..Len(q) : q[i] = e})

\* equality of two lists as unordered multisets
SameBag(p, q) ==
    /\ Len(p) = Len(q)
    /\ \A e \in Range(p) \cup Range(q) : Count(e, p) = Count(e, q)

\* the summed lengths of a list of lists
RECURSIVE SumLen(_)
SumLen(qs) == IF Len(qs) = 0 THEN 0 ELSE Len(Head(qs)) + SumLen(Tail(qs))

DisjointKeys(a, b) == \A f \in MapFields : (DOMAIN a[f]) \cap (DOMAIN b[f]) = {}

\* C1: after a.merge(b) each of the five entity maps has exactly the keys of
\* a's and b's maps together; a key of b carries b's value (also when a had
\* the key), any other key carries a's value.
C1_MergeLastWriteWins ==
    op = "merge" =>
        \A f \in MapFields :
            /\ DOMAIN analysis[f] = (DOMAIN pre[f]) \cup (DOMAIN other[f])
            /\ \A k \in DOMAIN analysis[f] :
                analysis[f][k] = IF k \in DOMAIN other[f] THEN other[f][k] ELSE pre[f][k]

\* a merge has just replaced the value of a colliding struct key and of a
\* colliding function key, and kept a key that only the receiver had
C1_Witness ==
    /\ op = "merge"
    /\ \E k \in (DOMAIN pre.structs) \cap (DOMAIN other.structs) :
        /\ pre.structs[k] # other.structs[k]
        /\ analysis.structs[k] = other.structs[k]
    /\ \E k \in (DOMAIN pre.functions) \cap (DOMAIN other.functions) :
        pre.functions[k] # other.functions[k]
    /\ \E k \in (DOMAIN pre.functions) \ (DOMAIN other.functions) :
        analysis.functions[k] = pre.functions[k]

\* C2: when a and b have no common key in any entity map, a.merge(b) and
\* b.merge(a) give the same entity maps, each the exact union, and
\* relationship lists that are equal as multisets.
C2_MergeCommutesOnDisjointKeys ==
    (op = "merge" /\ DisjointKeys(pre, other)) =>
        LET ba == merge(other, pre)
        IN  /\ \A f \in MapFields :
                /\ analysis[f] = ba[f]
                /\ DOMAIN analysis[f] = (DOMAIN pre[f]) \cup (DOMAIN other[f])
                /\ \A k \in DOMAIN pre[f] : analysis[f][k] = pre[f][k]
                /\ \A k \in DOMAIN other[f] : analysis[f][k] = other[f][k]
            /\ SameBag(analysis.relationships, ba.relationships)
            /\ Len(analysis.relationships) = Len(pre.relationships) + Len(other.relationships)

\* two analyzed aggregates with disjoint, non-empty maps have been merged,
\* and the other order would list the relationships differently
C2_Witness ==
    /\ op = "merge"
    /\ DisjointKeys(pre, other)
    /\ DOMAIN pre.structs # {} /\ DOMAIN other.structs # {}
    /\ DOMAIN pre.functions # {} /\ DOMAIN other.functions # {}
    /\ pre.relationships # <<>> /\ other.relationships # <<>>
    /\ analysis.relationships # merge(other, pre).relationships

\* C4 (first half): no merge (and no analyze) removes a key of an entity
\* map.  (second half): the impl list is the concatenation, in merge order,
\* of the impl lists of all merged aggregates, duplicates included.
C4_MergeMonotoneImplsConcatenated ==
    /\ op \in {"merge", "analyze"} =>
        \A f \in MapFields : (DOMAIN pre[f]) \subseteq (DOMAIN analysis[f])
    /\ analysis.impls = Flatten(merged)
    /\ Len(analysis.impls) = SumLen(merged)

\* the same impl block has been merged more than once and is held twice
C4_Witness ==
    /\ op = "merge"
    /\ Len(merged) >= 2
    /\ \E i, j \in 1..Len(analysis.impls) : i < j /\ analysis.impls[i] = analysis.impls[j]
    /\ other.impls # <<>>

(***************************************************************************)
(* Properties of analyze                                                   *)
(***************************************************************************)

\* the aggregate the last analyze call worked on
JustAnalyzed == op \in {"analyze", "analyze_other"}
Subject == IF op = "analyze_other" THEN other ELSE analysis

\* the edges of one kind, in list order
EdgesOfKind(a, kind) ==
    SelectSeq(a.relationships, LAMBDA e : e.relation_type = kind)

\* no known name equals the name or has the name's last `::`-segment
Unresolved(name, keys) ==
    \A k \in keys : k # name /\ LastSegment(k) # LastSegment(name)

\* C3: after analyze the relationship list holds exactly the edges the five
\* passes derived in that call from the entity maps and the impl list,
\* whatever the list held before; the entities are untouched.
C3_AnalyzeReplacesRelationships ==
    /\ op = "analyze" =>
        /\ analysis.relationships = derived
        /\ \A f \in MapFields : analysis[f] = pre[f]
        /\ analysis.impls = pre.impls
    /\ op = "analyze_other" => other.relationships = derived

\* analyze ran on a non-empty list and an edge of that list is gone
C3_Witness ==
    /\ op = "analyze"
    /\ pre.relationships # <<>>
    /\ analysis.relationships # <<>>
    /\ \E e \in Range(pre.relationships) : e \notin Range(analysis.relationships)

C8_TraitEdgesNeverDropped ==
    JustAnalyzed =>
        LET a == Subject
            implements == EdgesOfKind(a, "Implements")
            trait_impls == SelectSeq(a.impls, LAMBDA b : b.trait_name # None)
        IN  /\ Len(implements) = Len(trait_impls)
            /\ \A i \in 1..Len(trait_impls) :
                /\ Unresolved(trait_impls[i].self_type, all_type_names(a)) =>
                    implements[i].from = trait_impls[i].self_type
                /\ Unresolved(trait_impls[i].trait_name[1], DOMAIN a.traits) =>
                    implements[i].to = trait_impls[i].trait_name[1]
            /\ \A e \in Range(EdgesOfKind(a, "Extends")) : e.from \in DOMAIN a.traits
            /\ \A t \in DOMAIN a.traits :
                LET extends == SelectSeq(a.relationships,
                                         LAMBDA e : e.relation_type = "Extends" /\ e.from = t)
                    supers == a.traits[t].super_traits
                IN  /\ Len(extends) = Len(supers)
                    /\ \A j \in 1..Len(supers) :
                        Unresolved(supers[j], DOMAIN a.traits) => extends[j].to = supers[j]

\* edges with an unresolved self type and trait, with an unresolved
\* super-trait, and with resolved ends, side by side in one analyzed list
C8_Witness ==
    /\ JustAnalyzed
    /\ \E e \in Range(Subject.relationships) :
        e.relation_type = "Implements" /\ e.from = "Vec<T>" /\ e.to = "fmt::Display"
    /\ \E e \in Range(Subject.relationships) :
        e.relation_type = "Extends" /\ e.to = "Send"
    /\ \E e \in Range(Subject.relationships) :
        e.relation_type = "Extends" /\ e.to \in DOMAIN Subject.traits
    /\ \E e \in Range(Subject.relationships) :
        /\ e.relation_type = "Implements"
        /\ e.from \in all_type_names(Subject)
        /\ e.to \in DOMAIN Subject.traits

\* a call that is a known function, or is one after prefixing the caller's
\* module, or is the `::`-suffix of one
Resolvable(call, current_module, keys) ==
    \/ call \in keys
    \/ (current_module \o "::" \o call) \in keys
    \/ \E k \in keys : EndsWith(k, "::" \o call)

\* C9: after analyze every Calls edge joins two keys of the function map,
\* and each function has as many Calls edges as it has resolvable calls: an
\* unresolved call produces no edge.
C9_UnresolvedCallsSkipped ==
    JustAnalyzed =>
        LET a == Subject
            keys == DOMAIN a.functions
        IN  /\ \A e \in Range(EdgesOfKind(a, "Calls")) : e.from \in keys /\ e.to \in keys
            /\ \A f \in keys :
                Len(SelectSeq(a.relationships,
                              LAMBDA e : e.relation_type = "Calls" /\ e.from = f))
                = Cardinality({c \in 1..Len(a.functions[f].calls) :
                                Resolvable(a.functions[f].calls[c],
                                           a.functions[f].module_path, keys)})

\* a function with the unresolvable call `missing` has been analyzed next to
\* calls resolved by module prefix and by suffix
C9_Witness ==
    /\ JustAnalyzed
    /\ \E f \in DOMAIN Subject.functions :
        /\ "missing" \in Range(Subject.functions[f].calls)
        /\ ~Resolvable("missing", Subject.functions[f].module_path, DOMAIN Subject.functions)
        /\ \E e \in Range(Subject.relationships) :
            /\ e.relation_type = "Calls" /\ e.from = f
            /\ e.to = Subject.functions[f].module_path \o "::validate"
        /\ \E e \in Range(Subject.relationships) :
            /\ e.relation_type = "Calls" /\ e.from = f
            /\ e.to = "crate::math::helper"
    /\ \A e \in Range(Subject.relationships) : e.to # "missing"

(***************************************************************************)
(* Properties of the name resolver (under SpecResolver)                    *)
(***************************************************************************)

\* the known names whose last `::`-segment is the candidate's
Matches == {k \in Range(known) : LastSegment(k) = LastSegment(cand)}

\* C5: a candidate that is a member of the known set is returned unchanged
\* by type, trait and function resolution.
C5_ResolverExactness ==
    (rop \in {"type", "trait", "function"} /\ cand \in Range(known)) => resolved = cand

\* an exact member was resolved although another known name with the same
\* last segment comes first in the iteration order
C5_Witness ==
    /\ rop = "type"
    /\ cand \in Range(known)
    /\ known[1] # cand
    /\ LastSegment(known[1]) = LastSegment(cand)
    /\ resolved = cand

\* C6: type resolution of a candidate that is not a member, while some known
\* name has the candidate's last segment, returns one of those names; for
\* {crate::domain::User} and User it returns crate::domain::User.
C6_ResolverSuffixMatch ==
    /\ (rop = "type" /\ cand \notin Range(known) /\ Matches # {}) => resolved \in Matches
    /\ (rop = "type" /\ cand = "User" /\ known = <<"crate::domain::User">>) =>
        resolved = "crate::domain::User"

\* User was resolved by suffix although a name that merely ends in the
\* letters User comes first in the iteration order
C6_Witness ==
    /\ rop = "type"
    /\ cand = "User"
    /\ known = <<"crate::domain::SuperUser", "crate::domain::User">>
    /\ resolved = "crate::domain::User"

\* the known names the inner name of the type string denotes: the name
\* itself or a name with its last segment
Denoted == {k \in Range(known) : k = inner \/ LastSegment(k) = LastSegment(inner)}

\* C10 as claimed: extraction emits nothing for a primitive name, and for a
\* type string that wraps exactly one known user type in primitive names it
\* returns exactly that type's known name.  (Every wrapper of WrapperPool
\* consists of primitive names and punctuation.)
C10_PrimitiveFiltering ==
    rop = "extract" =>
        /\ inner \in PrimitiveTypes => references = <<>>
        /\ (wrapper[1] # "" /\ inner \notin PrimitiveTypes /\ Cardinality(Denoted) = 1) =>
            \E k \in Denoted : references = <<k>>

(***************************************************************************)
(* Properties of the containment pass                                      *)
(***************************************************************************)

\* the tokens of a type string: what is left between the generic, reference
\* and pointer punctuation
TypePunctuation == {"<", ">", "(", ")", "[", "]", ",", "&", "*"}

NamesIn(type_str) == SplitWhitespace(ReplaceChars(type_str, TypePunctuation, " "))

\* the known types a token denotes: the key it spells out in full, or the
\* keys whose last segment is the token's last segment
DenotedTypes(token, keys) ==
    {k \in keys : k = token \/ LastSegment(k) = LastSegment(token)}

\* the positions of the tokens of a field's type that are not primitive names
\* and denote a known type
DenotingTokens(ty, keys) ==
    {t \in 1..Len(NamesIn(ty)) :
        /\ ~is_primitive_type(NamesIn(ty)[t])
        /\ DenotedTypes(NamesIn(ty)[t], keys) # {}}

\* C11 as claimed: after analyze, every struct field has exactly one Contains
\* edge per non-primitive token of its type that denotes a known struct or
\* enum, from the struct to a type the token denotes, whether the token is a
\* simple name or already the fully-qualified key.
C11_OneContainsPerReference ==
    JustAnalyzed =>
        \A s \in DOMAIN Subject.structs :
            \A f \in 1..Len(Subject.structs[s].fields) :
                LET field == Subject.structs[s].fields[f]
                    keys  == all_type_names(Subject)
                    edges == {i \in 1..Len(Subject.relationships) :
                                /\ Subject.relationships[i].relation_type = "Contains"
                                /\ Subject.relationships[i].from = s
                                /\ Subject.relationships[i].label = field.name}
                IN  /\ Cardinality(edges) = Cardinality(DenotingTokens(field.ty, keys))
                    /\ \A t \in DenotingTokens(field.ty, keys) :
                        \E i \in edges :
                            Subject.relationships[i].to
                                \in DenotedTypes(NamesIn(field.ty)[t], keys)

\* the type string mentions the name: one of its tokens has the name's last
\* segment
Mentions(ty, name) ==
    \E t \in 1..Len(NamesIn(ty)) : LastSegment(NamesIn(ty)[t]) = LastSegment(name)

ImportedModule(path) ==
    LET cuts == {i \in 1..(Len(path) - 1) : SubSeq(path, i, i + 1) = "::"} IN
    IF cuts = {} THEN None
    ELSE Some(SubSeq(path, 1, (CHOOSE i \in cuts : \A j \in cuts : j <= i) - 1))

\* the imports of module m that call for an edge to module d
ImportsOf(a, m, d) ==
    {u \in 1..Len(a.modules[m].uses) :
        /\ ImportedModule(a.modules[m].uses[u].path) = Some(d)
        /\ d # ""
        /\ d # m}

\* C13: after analyze there is one DependsOn edge M -> D for every import of a
\* module M whose path without its last segment is D, D non-empty and other
\* than M, whether or not D is a known module, and there is no other
\* DependsOn edge.
C13_ModuleDependencies ==
    JustAnalyzed =>
        LET a == Subject
            depends == EdgesOfKind(a, "DependsOn")
        IN  /\ \A e \in Range(depends) :
                /\ e.from \in DOMAIN a.modules
                /\ ImportsOf(a, e.from, e.to) # {}
            /\ \A m \in DOMAIN a.modules :
                \A u \in 1..Len(a.modules[m].uses) :
                    LET d == ImportedModule(a.modules[m].uses[u].path) IN
                    d # None =>
                        Count(Relationship(m, d[1], "DependsOn", None), depends)
                            = Cardinality(ImportsOf(a, m, d[1]))

\* a module importing from an undeclared module, from itself and by a path of
\* one segment has been analyzed, and the edge to the undeclared module exists
C13_Witness ==
    /\ JustAnalyzed
    /\ "crate::domain" \in DOMAIN Subject.modules
    /\ "crate::math" \notin DOMAIN Subject.modules
    /\ \E u, v, w \in 1..Len(Subject.modules["crate::domain"].uses) :
        /\ Subject.modules["crate::domain"].uses[u].path = "crate::math::Permutation"
        /\ Subject.modules["crate::domain"].uses[v].path = "crate::domain::Role"
        /\ Subject.modules["crate::domain"].uses[w].path = "fmt"
    /\ Relationship("crate::domain", "crate::math", "DependsOn", None)
            \in Range(Subject.relationships)

(***************************************************************************)
(* Properties of identifier sanitization                                   *)
(***************************************************************************)

\* C14 as claimed: sanitize_id maps "crate::domain::User" to
\* "crate_domain_User", and applying it to its own result changes nothing.
C14_SanitizeIdempotent ==
    /\ (passes >= 1 /\ raw = "crate::domain::User") => safe_id = "crate_domain_User"
    /\ passes >= 2 => safe_id = prev_id

\* C15 as claimed: a sanitized identifier holds no `::`, no `-`, none of the
\* replaced characters and no two underscores in a row, and neither starts
\* nor ends with an underscore.
C15_SanitizedShape ==
    passes >= 1 =>
        /\ ~contains(safe_id, "::")
        /\ ~contains(safe_id, "-")
        /\ \A c \in SanitizedChars : ~contains(safe_id, c)
        /\ ~contains(safe_id, "__")
        /\ ~StartsWith(safe_id, "_")
        /\ ~EndsWith(safe_id, "_")

(***************************************************************************)
(* Properties of the rendered diagrams                                     *)
(***************************************************************************)

\* the arrow of a relationship kind in the class diagram
ClassArrow(kind) ==
    CASE kind = "Implements" -> " ..|> "
      [] kind = "Contains" -> " --> "
      [] kind = "Extends" -> " --|> "

\* the positions of the lines of the text that draw an edge of the kind
\* between the two identifiers, with or without a label
EdgeLines(text, kind, from_id, to_id) ==
    LET edge == indent \o from_id \o ClassArrow(kind) \o to_id IN
    {n \in 1..Len(text) : text[n] = edge \/ StartsWith(text[n], edge \o " : ")}

\* the first relationship of the list with the kind and the sanitized ends of
\* the i-th one
FirstLike(rels, i) ==
    CHOOSE j \in 1..i :
        /\ rels[j].relation_type = rels[i].relation_type
        /\ sanitize_id(rels[j].from) = sanitize_id(rels[i].from)
        /\ sanitize_id(rels[j].to) = sanitize_id(rels[i].to)
        /\ \A k \in 1..(j - 1) :
            ~ /\ rels[k].relation_type = rels[i].relation_type
              /\ sanitize_id(rels[k].from) = sanitize_id(rels[i].from)
              /\ sanitize_id(rels[k].to) = sanitize_id(rels[i].to)

\* C16: the class diagram holds at most one edge line for each kind
\* (Implements, Contains, Extends) and pair of sanitized ends, and for a
\* Contains edge between two different identifiers exactly one, which carries
\* the label of the first such edge of the relationship list.
C16_ClassEdgesDeduplicated ==
    diagram = "class" =>
        LET rels == analysis.relationships IN
        \A i \in 1..Len(rels) :
            rels[i].relation_type \in {"Implements", "Contains", "Extends"} =>
                LET from_id == sanitize_id(rels[i].from)
                    to_id == sanitize_id(rels[i].to)
                    lines == EdgeLines(output, rels[i].relation_type, from_id, to_id)
                IN  /\ Cardinality(lines) <= 1
                    /\ (rels[i].relation_type = "Contains" /\ from_id # to_id) =>
                        /\ Cardinality(lines) = 1
                        /\ \A n \in lines :
                            output[n] = indent \o from_id \o " --> " \o to_id
                                \o (IF rels[FirstLike(rels, i)].label = None THEN ""
                                    ELSE " : " \o rels[FirstLike(rels, i)].label[1])

\* a class diagram has been rendered from a list that holds the Contains edge
\* Line -> Point twice, for the fields start and end, in that order
C16_Witness ==
    /\ diagram = "class"
    /\ \E i, j \in 1..Len(analysis.relationships) :
        /\ i < j
        /\ analysis.relationships[i] =
            Relationship("crate::geometry::Line", "crate::geometry::Point", "Contains",
                         Some("start"))
        /\ analysis.relationships[j] =
            Relationship("crate::geometry::Line", "crate::geometry::Point", "Contains",
                         Some("end"))
    /\ \E n \in 1..Len(output) :
        output[n] = "    crate_geometry_Line --> crate_geometry_Point : start"

\* the positions of the solid edge lines of the text between the two modules
SolidLines(text, from, to) ==
    {n \in 1..Len(text) :
        text[n] = indent \o sanitize_id(from) \o " --> " \o sanitize_id(to)}

\* the modules the module diagram knows: the declared ones and the parent
\* path of every struct, enum and trait
KnownModules(a) ==
    (DOMAIN a.modules)
    \cup {ImportedModule(k)[1] :
            k \in {n \in (DOMAIN a.structs) \cup (DOMAIN a.enums) \cup (DOMAIN a.traits) :
                        ImportedModule(n) # None}}

\* C17 as claimed: rendering the module diagram leaves the relationship list
\* as it was and draws no solid edge for a DependsOn edge one of whose ends is
\* not a key of the module map.
C17_UndeclaredModulesFiltered ==
    [][diagram' = "module" =>
        /\ analysis'.relationships = analysis.relationships
        /\ \A e \in Range(analysis.relationships) :
            (/\ e.relation_type = "DependsOn"
             /\ (e.from \notin DOMAIN analysis.modules \/ e.to \notin DOMAIN analysis.modules))
                => SolidLines(output', e.from, e.to) = {}]_vars

\* C17, amended: rendering the module diagram leaves the relationship list as
\* it was and draws no solid edge for a DependsOn edge one of whose ends is
\* neither a key of the module map nor the parent path of a struct, enum or
\* trait.
C17_UnknownModulesFiltered ==
    [][diagram' = "module" =>
        /\ analysis'.relationships = analysis.relationships
        /\ \A e \in Range(analysis.relationships) :
            (/\ e.relation_type = "DependsOn"
             /\ (e.from \notin KnownModules(analysis) \/ e.to \notin KnownModules(analysis)))
                => SolidLines(output', e.from, e.to) = {}]_vars

\* a module diagram has been rendered from a list with a DependsOn edge to
\* std::fmt, which is no known module, and one to crate::math, which is known
\* only as the parent of a struct; the latter is drawn
C17_Witness ==
    /\ diagram = "module"
    /\ Relationship("crate::domain", "std::fmt", "DependsOn", None)
            \in Range(analysis.relationships)
    /\ Relationship("crate::domain", "crate::math", "DependsOn", None)
            \in Range(analysis.relationships)
    /\ "std::fmt" \notin KnownModules(analysis)
    /\ "crate::math" \in KnownModules(analysis) \ DOMAIN analysis.modules
    /\ SolidLines(output, "crate::domain", "crate::math") # {}
    /\ SolidLines(output, "crate::domain", "std::fmt") = {}

\* the parent module of an entity: its name without the last `::`-segment
ParentOf(full_name) ==
    IF ImportedModule(full_name) = None THEN "" ELSE ImportedModule(full_name)[1]

\* the positions of the Rel lines of the text between the two identifiers
RelLines(text, from_id, to_id) ==
    {n \in 1..Len(text) : StartsWith(text[n], "Rel(" \o from_id \o ", " \o to_id \o ", ")}

\* C18 as claimed: the component view holds no Rel line for an Implements,
\* Contains or Extends edge whose ends have the same parent module or are the
\* same entity.
C18_IntraModuleEdgesSuppressed ==
    diagram = "c4component" =>
        \A e \in Range(analysis.relationships) :
            (/\ e.relation_type \in {"Implements", "Contains", "Extends"}
             /\ (ParentOf(e.from) = ParentOf(e.to) \/ e.from = e.to))
                => RelLines(output, sanitize_id(e.from), sanitize_id(e.to)) = {}

\* the modules that own at least one struct, enum or trait
OwningModules(a) ==
    {ParentOf(k) : k \in (DOMAIN a.structs) \cup (DOMAIN a.enums) \cup (DOMAIN a.traits)}
        \ {""}

\* the ordered pairs of distinct owning modules joined by a DependsOn edge or
\* by a Contains or Implements edge between entities of the two
DependentPairs(a) ==
    {p \in OwningModules(a) \X OwningModules(a) :
        /\ p[1] # p[2]
        /\ \E e \in Range(a.relationships) :
            \/ e.relation_type = "DependsOn" /\ e.from = p[1] /\ e.to = p[2]
            \/ /\ e.relation_type \in {"Contains", "Implements"}
               /\ ParentOf(e.from) = p[1]
               /\ ParentOf(e.to) = p[2]}

\* C19: the Rel lines of the container view are exactly one Rel(A, B) for
\* every pair of distinct owning modules A, B joined by a DependsOn edge A -> B
\* or by a Contains or Implements edge from an entity of A to one of B; both
\* ends of every Rel are declared as a Container in the same text.
C19_ContainerRelations ==
    diagram = "c4container" =>
        LET rel_lines == {n \in 1..Len(output) : StartsWith(output[n], "Rel(")}
            line(p) == "Rel(" \o sanitize_id(p[1]) \o ", " \o sanitize_id(p[2])
                            \o ", \"uses\")"
            declared(m) == \E n \in 1..Len(output) :
                                StartsWith(output[n], "Container(" \o sanitize_id(m) \o ", ")
        IN  /\ \A p \in DependentPairs(analysis) :
                /\ Cardinality({n \in rel_lines : output[n] = line(p)}) = 1
                /\ declared(p[1])
                /\ declared(p[2])
            /\ \A n \in rel_lines :
                \E p \in DependentPairs(analysis) : output[n] = line(p)

\* a container view has been rendered from a list in which the pair shapes ->
\* geometry is joined both by a DependsOn edge and by a Contains edge (Circle
\* -> Point), and which holds edges inside one module (Line -> Point)
C19_Witness ==
    /\ diagram = "c4container"
    /\ Relationship("crate::geometry::shapes", "crate::geometry", "DependsOn", None)
            \in Range(analysis.relationships)
    /\ Relationship("crate::geometry::shapes::Circle", "crate::geometry::Point",
                    "Contains", Some("center")) \in Range(analysis.relationships)
    /\ Relationship("crate::geometry::Line", "crate::geometry::Point",
                    "Contains", Some("start")) \in Range(analysis.relationships)
    /\ \E n \in 1..Len(output) :
        output[n] = "Rel(crate_geometry_shapes, crate_geometry, \"uses\")"

\* the first lines of the five views
ViewHeads == {"C4Container", "C4Component", "classDiagram", "flowchart TD", "flowchart LR"}

\* C20: the combined document holds the C4 container, C4 component and class
\* sections in that order, then the module section if and only if the module
\* map is not empty, then the call-graph section if and only if the function
\* map is not empty; every section holds its own view.
C20_CombinedDocumentSections ==
    diagram = "full" =>
        LET with_modules == DOMAIN analysis.modules # {}
            with_functions == DOMAIN analysis.functions # {}
        IN  /\ SelectSeq(output, LAMBDA l : StartsWith(l, "## ")) =
                    <<"## C4 Container Diagram", "## C4 Component Diagram",
                      "## Class Diagram">>
                    \o (IF with_modules THEN <<"## Module Dependencies">> ELSE <<>>)
                    \o (IF with_functions THEN <<"## Function Call Graph">> ELSE <<>>)
            /\ SelectSeq(output, LAMBDA l : l \in ViewHeads) =
                    <<"C4Container", "C4Component", "classDiagram">>
                    \o (IF with_modules THEN <<"flowchart TD">> ELSE <<>>)
                    \o (IF with_functions THEN <<"flowchart LR">> ELSE <<>>)

\* a combined document has been rendered for a crate with declared modules
\* and without functions: it ends with the module section
C20_Witness ==
    /\ diagram = "full"
    /\ DOMAIN analysis.modules # {}
    /\ DOMAIN analysis.functions = {}
    /\ \E n \in 1..Len(output) : output[n] = "## Module Dependencies"
    /\ \A n \in 1..Len(output) : output[n] # "## Function Call Graph"

(***************************************************************************)
(* Properties of the packet filter                                         *)
(***************************************************************************)

\* C21: PacketFilter::matches returns true exactly when all configured
\* criteria hold together: the filter protocol is All or the packet's, the
\* source is unset or the packet's, the destination is unset or the
\* packet's, and the port is unset or the packet's source or destination
\* port; so a packet without ports never matches a filter with a port
C21_MatchesIsConjunction ==
    matched # None =>
        /\ matched[1] =
              (/\ (filter.protocol = "All" \/ filter.protocol = arguments.protocol)
               /\ (filter.source = None \/ filter.source = Some(arguments.src_ip))
               /\ (filter.destination = None
                      \/ filter.destination = Some(arguments.dst_ip))
               /\ (filter.port = None
                      \/ filter.port = arguments.src_port
                      \/ filter.port = arguments.dst_port))
        /\ (filter.port # None /\ arguments.src_port = None
               /\ arguments.dst_port = None => matched[1] = FALSE)

\* a filter with every criterion set matches a packet by its destination port
C21_Witness ==
    /\ matched = Some(TRUE)
    /\ filter.protocol # "All"
    /\ filter.source # None
    /\ filter.destination # None
    /\ filter.port # None
    /\ filter.port = arguments.dst_port
    /\ filter.port # arguments.src_port

(***************************************************************************)
(* Properties of the configuration                                         *)
(***************************************************************************)

\* C22: Config::from_args gives the command line precedence over the
\* configuration file: every setting the user passes comes out with the
\* value passed, also when that value equals the default of the option
C22_CommandLinePrecedence ==
    pc = "configured" =>
        /\ argv.interface # None => config[1].interface = argv.interface
        /\ argv.protocol # None => config[1].protocol = argv.protocol[1]
        /\ argv.port # None => config[1].port = argv.port
        /\ argv.source # None => config[1].source = argv.source
        /\ argv.destination # None => config[1].destination = argv.destination
        /\ argv.output # None => config[1].output = argv.output[1]
        /\ argv.max_packets # None => config[1].max_packets = argv.max_packets[1]
        /\ argv.verbose => config[1].verbose

(***************************************************************************)
(* Properties of trait and function resolution                             *)
(***************************************************************************)

\* C23: trait resolution applies the algorithm of type resolution:
\* find_trait_name returns a name that resolve_type_name could return over
\* the same set of names, in some iteration order; in particular, when the
\* candidate is not a key and a key equals the simple name of the candidate
\* in full (and no other key ends with it), that key is returned
C23_TraitResolutionAsTypes ==
    rop = "trait" =>
        /\ \E known_types \in Orders(Range(known)) :
                resolved = resolve_type_name(cand, known_types)
        /\ (/\ cand \notin Range(known)
            /\ LastSegment(cand) \in Range(known)
            /\ \A k \in Range(known) : ~EndsWith(k, "::" \o LastSegment(cand)))
                => resolved = LastSegment(cand)

\* C24: function resolution falls back to a simple-name suffix match: a call
\* name that is neither a known function nor known after prefixing the
\* current module resolves to a known function whose last segment equals
\* the last segment of the call name, whenever there is one (a call name is
\* a path, so the candidate is taken without wrapper)
C24_SimpleNameFallback ==
    (/\ rop = "function"
     /\ wrapper = <<"", "">>
     /\ cand \notin Range(known)
     /\ module \o "::" \o cand \notin Range(known)
     /\ \E k \in Range(known) : LastSegment(k) = LastSegment(cand))
        => /\ resolved \in Range(known)
           /\ LastSegment(resolved) = LastSegment(cand)

\* C25: function resolution tries exact match, then the current module
\* prefix, then the suffix scan: a call name that is a known function
\* resolves to itself, and one that is not, while current_module::call is,
\* resolves to current_module::call in every iteration order of the known
\* set, whatever functions of the same simple name other modules hold
C25_ResolutionOrder ==
    rop = "function" =>
        /\ cand \in Range(known) => resolved = cand
        /\ (cand \notin Range(known) /\ module \o "::" \o cand \in Range(known))
                => resolved = module \o "::" \o cand

\* helper called in crate::util while another module's helper comes first in
\* the iteration of the known set
C25_Witness ==
    /\ rop = "function"
    /\ cand = "helper"
    /\ module = "crate::util"
    /\ known = <<"crate::other::helper", "crate::util::helper">>
    /\ resolved = "crate::util::helper"

(***************************************************************************)
(* Properties of the C4 views                                              *)
(***************************************************************************)

\* the kinds of edge the component view renders
RenderedKinds == {"Implements", "Contains", "Extends"}

\* C26: edges of a kind the component view does not render (Calls,
\* DependsOn, References) have no effect on it: the view holds the Rel lines
\* the relationship list without those edges yields, so every Implements,
\* Contains or Extends edge between two distinct identifiers has its Rel line
C26_UnrenderedKindsHaveNoEffect ==
    diagram = "c4component" =>
        LET rendered == SelectSeq(analysis.relationships,
                                  LAMBDA e : e.relation_type \in RenderedKinds)
        IN  /\ {output[n] : n \in {i \in 1..Len(output) : StartsWith(output[i], "Rel(")}}
                    = Range(ComponentRelLines(rendered, {}))
            /\ \A e \in Range(rendered) :
                    sanitize_id(e.from) # sanitize_id(e.to)
                        => RelLines(output, sanitize_id(e.from), sanitize_id(e.to)) # {}

(***************************************************************************)
(* Properties of type-reference extraction                                 *)
(***************************************************************************)

\* C27: extraction removes mut and dyn only as tokens: after analyze, a
\* token of a struct field's type that merely contains the letters mut or
\* dyn and denotes a known type by its last segment yields a Contains edge
\* from the struct, labelled with the field, to a type the token denotes
C27_MutDynOnlyAsTokens ==
    JustAnalyzed =>
        \A s \in DOMAIN Subject.structs :
            \A f \in 1..Len(Subject.structs[s].fields) :
                LET field == Subject.structs[s].fields[f]
                    keys  == all_type_names(Subject)
                IN  \A t \in DenotingTokens(field.ty, keys) :
                        LET token == NamesIn(field.ty)[t] IN
                        (/\ contains(token, "mut") \/ contains(token, "dyn")
                         /\ token \notin {"mut", "dyn"}
                         /\ token \notin keys)
                            => \E e \in Range(Subject.relationships) :
                                /\ e.relation_type = "Contains"
                                /\ e.from = s
                                /\ e.label = field.name
                                /\ e.to \in DenotedTypes(token, keys)

(***************************************************************************)
(* Properties of the capture loop                                          *)
(***************************************************************************)

\* the frame parses as a supported protocol: IPv4 carrying TCP, UDP or ICMP,
\* or IPv6 carrying TCP, UDP or ICMPv6, with complete headers
Supported(data) ==
    /\ data.ethernet
    /\ data.ip
    /\ \/ data.next_header \in {"Tcp", "Udp"} /\ data.transport
       \/ data.ethertype = "Ipv4" /\ data.next_header = "Icmp"
       \/ data.ethertype = "Ipv6" /\ data.next_header = "Icmpv6"
    /\ data.ethertype \in {"Ipv4", "Ipv6"}

\* the frame passes the filter
Passes(f, data) ==
    /\ f.protocol = "All"
          \/ f.protocol = (IF data.next_header = "Icmpv6" THEN "Icmp" ELSE data.next_header)
    /\ f.source = None \/ f.source = Some(data.source)
    /\ f.destination = None \/ f.destination = Some(data.destination)
    /\ f.port = None
          \/ (data.transport /\ f.port[1] \in {data.ports[1], data.ports[2]})

\* a step of the loop in which rx.next() returns a packet
ReceivedPacket == pc = "receive" /\ pc' # "receive" /\ packet' # None

\* the step counts one more packet as written
WrotePacket == engine'.writer.packet_count = engine.writer.packet_count + 1

\* a received packet is handed to the writer if and only if it parses as a
\* supported protocol and passes the filter, and is then counted unless the
\* write fails; nothing else changes the writer's count
WrittenIffCaptured ==
    /\ ReceivedPacket =>
            LET captured == Supported(packet'[1]) /\ Passes(engine.filter, packet'[1])
            IN  /\ (WrotePacket \/ result' = "Err(write_packet)") <=> captured
                /\ ~(WrotePacket /\ result' = "Err(write_packet)")
    /\ ~ReceivedPacket => engine'.writer.packet_count = engine.writer.packet_count

\* with a limit, the count never exceeds it and the loop is left as soon as it
\* is reached
LimitRespected ==
    engine.max_packets > 0 =>
        /\ engine.writer.packet_count <= engine.max_packets
        /\ pc \in {"check", "receive"} => engine.writer.packet_count < engine.max_packets

\* without a limit, the loop is left for the final flush only on the cleared flag
NoLimitNeverEnds ==
    (engine.max_packets = 0 /\ pc # "flush" /\ pc' = "flush")
        => pc = "check" /\ ~running

\* the loop is left for the final flush or with an error of a write (of the
\* packet, or of the progress line); flush has been called once run has
\* returned without such an error, and in any case once the engine is
\* dropped; after Ok nothing is left in the buffer
FlushedOnExit ==
    /\ (pc = "returned" /\ result \notin {"Err(write_packet)", "Err(stdout)"})
            => flushes >= 1
    /\ (pc = "returned" /\ result = "Ok") => ~engine.writer.buffered
    /\ pc = "dropped" => flushes >= 1
    /\ pc \in {"check", "receive"} => flushes = 0 /\ result = "none"

\* C28: the capture loop respects the packet limit: a received packet is
\* written if and only if it parses as a supported protocol and passes the
\* filter; with max_packets > 0 the loop ends as soon as max_packets packets
\* are written and the writer's count never exceeds max_packets; with
\* max_packets = 0 the limit never ends the loop; the writer is flushed on
\* every exit from the loop that is not a write error
C28_CaptureLoopLimit ==
    /\ [](LimitRespected /\ FlushedOnExit)
    /\ [][WrittenIffCaptured /\ NoLimitNeverEnds]_vars

\* the loop has been left at the limit of two packets, flushed, with Ok
C28_Witness ==
    /\ pc = "returned"
    /\ result = "Ok"
    /\ running
    /\ engine.max_packets = 2
    /\ engine.writer.packet_count = 2
    /\ engine.filter.port # None

\* C29: graceful shutdown: once the Ctrl+C handler has cleared the running
\* flag, at whatever point of the loop, the loop writes at most one further
\* packet (the one whose receive was in progress), the next test of the flag
\* leaves the loop, and, every receive call returning, run ends and the
\* writer has been flushed; the flag is never set back to true
C29_GracefulShutdown ==
    /\ [](after_stop <= 1)
    /\ [][~running => ~running']_vars
    /\ [][(~running /\ pc = "check" /\ pc' # pc) => pc' = "flush"]_vars
    /\ (~running ~> (pc = "dropped" /\ flushes >= 1))

\* Ctrl+C arrived during a receive; the packet received was written, and the
\* run then ended with Ok
C29_Witness ==
    /\ ~running
    /\ after_stop = 1
    /\ engine.max_packets = 0
    /\ pc = "dropped"
    /\ result = "Ok"
    /\ ~engine.writer.buffered

(***************************************************************************)
(* Properties of the C4 container view                                     *)
(***************************************************************************)

\* the keyword table, in the order the keywords are tested
KeywordTable ==
    <<<<"service", "Service Layer">>,
      <<"repository", "Repository Layer">>, <<"repo", "Repository Layer">>,
      <<"domain", "Domain Layer">>, <<"entity", "Domain Layer">>,
      <<"model", "Domain Layer">>,
      <<"api", "API Layer">>, <<"handler", "API Layer">>>>

\* the label of the first keyword of the table the short name contains
FirstKeywordLabel(short_name) ==
    LET hits == {i \in 1..Len(KeywordTable) : contains(short_name, KeywordTable[i][1])}
    IN  IF hits = {} THEN "Rust Module"
        ELSE KeywordTable[CHOOSE i \in hits : \A j \in hits : i <= j][2]

\* the positions of the Container lines of the text for the identifier
ContainerLines(text, id) ==
    {n \in 1..Len(text) : StartsWith(text[n], "Container(" \o id \o ", ")}

\* C30: the container view labels each module by the first matching keyword
\* of its short name, tested in the order service; repository, repo; domain,
\* entity, model; api, handler; else Rust Module; every container has exactly
\* one line, with one label
C30_TechnologyByFirstKeyword ==
    diagram = "c4container" =>
        /\ \A m \in ParentModules(analysis) \ {""} :
            /\ Cardinality(ContainerLines(output, sanitize_id(m))) = 1
            /\ \A n \in ContainerLines(output, sanitize_id(m)) :
                    StartsWith(output[n],
                        "Container(" \o sanitize_id(m) \o ", \"" \o LastSegment(m)
                            \o "\", \"" \o FirstKeywordLabel(LastSegment(m))
                            \o "\", \"")
        /\ Cardinality({n \in 1..Len(output) : StartsWith(output[n], "Container(")})
                = Cardinality(ParentModules(analysis) \ {""})

\* a module whose short name holds both repo and service is a Service Layer,
\* next to a module labelled by service alone
C30_Witness ==
    /\ diagram = "c4container"
    /\ \E n \in 1..Len(output) :
            StartsWith(output[n],
                "Container(crate_repo_service, \"repo_service\", \"Service Layer\", ")
    /\ \E n \in 1..Len(output) :
            StartsWith(output[n],
                "Container(crate_services, \"services\", \"Service Layer\", ")

====
